---- MODULE Spec2Model ----
(***************************************************************************)
(* A model of the asif IRC client (src/bot/bot.py): the read loop of       *)
(* Client.run, the command-handler registry and its dispatch, the          *)
(* registration task _connect, the await helpers with their done-callbacks *)
(* on the asyncio ready queue, the join handshake and the roster.          *)
(*                                                                         *)
(* Strings are sequences of one-character strings, so that split,          *)
(* partition, strip and indexing are computed as the code computes them.   *)
(***************************************************************************)
EXTENDS Integers, Sequences, FiniteSets, TLC

\* Python's None: a value no string is equal to.
None == <<"<None>">>

\* Python truthiness of an optional string: None and "" are falsy.
Truthy(s) == s # None /\ s # <<>>

------------------------------------------------------------------------------
(* Bounds of the model.                                                     *)

\* lines read from the stream in one run: of registration and chat traffic,
\* of join handshakes, and of roster traffic
MaxLines == 4
MaxJoinLines == 7
MaxRosterLines == 4
\* User objects alive at one time
MaxObjs == 3
\* registrations a user program makes in all (command, join and message
\* handlers, await_command futures)
MaxUserHandlers == 2
\* own JOIN lines processed (each creates a pair of closures)
MaxJoins == 2
\* calls the program makes on a Module and its channel proxies
MaxModuleCalls == 4
\* params of a message given to _buildmsg
MaxParams == 2
\* blocking joins the program calls
MaxBlocking == 2
\* entries the program adds to the registries before it removes handlers
MaxRegistered == 3

------------------------------------------------------------------------------
(* Protocol tokens.                                                         *)

RPL_ISUPPORT == <<"0", "0", "5">>
RPL_NAMREPLY == <<"3", "5", "3">>
RPL_ENDOFNAMES == <<"3", "6", "6">>
RPL_ENDOFMOTD == <<"3", "7", "6">>
ERR_NICKNAMEINUSE == <<"4", "3", "3">>
NICK == <<"N", "I", "C", "K">>
USER == <<"U", "S", "E", "R">>
JOIN == <<"J", "O", "I", "N">>
PART == <<"P", "A", "R", "T">>
QUIT == <<"Q", "U", "I", "T">>
PING == <<"P", "I", "N", "G">>
PONG == <<"P", "O", "N", "G">>
PRIVMSG == <<"P", "R", "I", "V", "M", "S", "G">>
NOTICE == <<"N", "O", "T", "I", "C", "E">>

------------------------------------------------------------------------------
(* Python string operations, on sequences of characters.  A value that is   *)
(* used more than once is passed as a parameter of a local operator.        *)

\* str.isspace() of one character
IsSpace(c) == c \in {" ", "\t", "\n", "\r"}

\* s[n:]
DropFirst(s, n) == SubSeq(s, n + 1, Len(s))

\* the least element of a set of positions, 0 for the empty set
First(S) == IF S = {} THEN 0 ELSE CHOOSE i \in S : \A j \in S : i <= j

\* s.find(sub), 1-based; 0 when sub does not occur in s
Find(s, sub) ==
    First({i \in 1..(Len(s) - Len(sub) + 1) : SubSeq(s, i, i + Len(sub) - 1) = sub})

\* sub in s
Contains(s, sub) == Find(s, sub) # 0

\* s.partition(sep): <<head, sep, tail>>, or <<s, "", "">> when sep is absent
Partition(s, sep) ==
    LET At(i) == IF i = 0 THEN <<s, <<>>, <<>>>>
                 ELSE <<SubSeq(s, 1, i - 1), sep, SubSeq(s, i + Len(sep), Len(s))>>
    IN  At(Find(s, sep))

\* s.split(sep, 1): one or two pieces
Split1(s, sep) ==
    LET At(i) == IF i = 0 THEN <<s>>
                 ELSE <<SubSeq(s, 1, i - 1), SubSeq(s, i + Len(sep), Len(s))>>
    IN  At(Find(s, sep))

\* s.split(sep): every piece, the empty ones kept
RECURSIVE SplitOn(_, _)
SplitOn(s, sep) ==
    LET At(i) == IF i = 0 THEN <<s>>
                 ELSE <<SubSeq(s, 1, i - 1)>> \o SplitOn(SubSeq(s, i + Len(sep), Len(s)), sep)
    IN  At(Find(s, sep))

\* s.split(): the maximal runs of non-whitespace
RECURSIVE SplitWs(_)
SplitWs(s) ==
    LET To(e) == IF e = 0 THEN <<s>>
                 ELSE <<SubSeq(s, 1, e - 1)>> \o SplitWs(SubSeq(s, e, Len(s)))
    IN  IF s = <<>> THEN <<>>
        ELSE IF IsSpace(s[1]) THEN SplitWs(Tail(s))
        ELSE To(First({i \in 1..Len(s) : IsSpace(s[i])}))

\* s.strip(chars)
RECURSIVE StripChars(_, _)
StripChars(s, chars) ==
    IF s = <<>> THEN s
    ELSE IF s[1] \in chars THEN StripChars(Tail(s), chars)
    ELSE IF s[Len(s)] \in chars THEN StripChars(SubSeq(s, 1, Len(s) - 1), chars)
    ELSE s

\* " ".join(parts)
RECURSIVE JoinSp(_)
JoinSp(parts) ==
    IF parts = <<>> THEN <<>>
    ELSE IF Len(parts) = 1 THEN parts[1]
    ELSE parts[1] \o <<" ">> \o JoinSp(Tail(parts))

------------------------------------------------------------------------------
(* The codec.                                                               *)

\* Client.IrcMessage
IrcMessage(prefix, args, rest) ==
    [kind |-> "msg", prefix |-> prefix, args |-> args, rest |-> rest]

\* Client._parsemsg: kind "none" is the None it returns for an empty line,
\* kind "raise" the ValueError of unpacking a prefix with no space after it.
Parsemsg(line) ==
    LET Body(prefix, msg) ==
            LET Two(two) == IF Len(two) = 2 THEN IrcMessage(prefix, SplitWs(two[1]), two[2])
                            ELSE IrcMessage(prefix, SplitWs(msg), None)
            IN  Two(Split1(msg, <<" ", ":">>))
        Pieces(pieces) == IF Len(pieces) # 2 THEN [kind |-> "raise"]
                          ELSE Body(pieces[1], pieces[2])
    IN  IF line = <<>> THEN [kind |-> "none"]
        ELSE IF line[1] = ":" THEN Pieces(Split1(DropFirst(line, 1), <<" ">>))
        ELSE Body(None, line)

\* Client._buildmsg
Buildmsg(args, prefix, rest) ==
    (IF Truthy(prefix) THEN <<":">> \o prefix \o <<" ">> ELSE <<>>)
    \o JoinSp(args)
    \o (IF Truthy(rest) THEN <<" ", ":">> \o rest ELSE <<>>)

------------------------------------------------------------------------------
(* The program state as one record s, threaded through the handlers that    *)
(* run while one line is processed:                                         *)
(*   handlers, msgHandlers, joinHandlers  the three registries (lists)      *)
(*   users     Client._users, nick -> User object (an id)                   *)
(*   objs      the User objects: id -> [name, hostmask]                     *)
(*   chans     Client._channels, name -> Channel.users; a Python set is     *)
(*             the list of its entries [hash, u] in insertion order, each   *)
(*             holding the hash (here the name) its object had when added   *)
(*   nick, chanTypes, prefixMap, connected  the Client fields               *)
(*   futs      the futures of the await helpers: id -> state                *)
(*   joining   the blocking joins awaiting their future: id -> channel      *)
(*   msgFuts   the futures of await_message (those of await_command have an *)
(*             entry in calls)                                              *)
(*   awaits    the future the task of run awaits inside a command handler,  *)
(*             with the message and the place in the registry to go on at   *)
(*   ready     the event loop's queue of scheduled callbacks and tasks      *)
(*   exc       the exception that left the handler, None when none did      *)
(*   sent, invoked, spawned   what this step wrote, called and started      *)
(*   calls     per future, how often its helper's handler was invoked       *)
(*   nJoins    closures created by _on_join so far                          *)

\* the bound method or closure that is a handler: fn names the function, id the
\* closure instance (0 for a bound method), chan the channel a closure captured
Fn(fn, id, chan) == [fn |-> fn, id |-> id, chan |-> chan]

\* Client.CommandHandler
CommandHandler(args, rest, h) == [args |-> args, rest |-> rest, h |-> h]

\* Client.JoinHandler
JoinHandler(channel, h) == [channel |-> channel, h |-> h]

\* Client.MessageHandler, its matcher given by the filters of on_message;
\* matcher is the matcher argument of on_message, None when there is none
MessageHandler(message, channel, sender, notice, h) ==
    [message |-> message, channel |-> channel, sender |-> sender, notice |-> notice,
     matcher |-> None, h |-> h]

\* no exception is in flight
NoExc == "none"

\* raise e: the handlers that follow see it and stop
Raise(s, e) == [s EXCEPT !.exc = e]

\* Client._send: the line handed to the writer
Send(s, args, rest) == [s EXCEPT !.sent = Append(@, Buildmsg(args, None, rest))]

\* a filter on_message knows nothing to do with: an int
Unknown == <<"<int>">>

\* an on_message that takes every filter
UnsupportedNever(filter) == FALSE

\* the "else: raise ValueError" of a filter of on_message: neither None nor a
\* str nor an object with a search method
Unsupported(filter) == filter = Unknown

\* Client.on_message(message, channel, sender, notice=notice)(h)
OnMessage(s, message, channel, sender, notice, h) ==
    IF Unsupported(message) \/ Unsupported(sender) \/ Unsupported(channel)
    THEN Raise(s, "ValueError")
    ELSE [s EXCEPT !.msgHandlers = Append(@, MessageHandler(message, channel, sender, notice, h))]

\* Client.on_command(*args, rest=rest)(h)
OnCommand(s, args, rest, h) ==
    [s EXCEPT !.handlers = Append(@, CommandHandler(args, rest, h))]

\* list.remove(x): the first element equal to x goes
RECURSIVE ListRemove(_, _)
ListRemove(list, x) ==
    IF list = <<>> THEN list
    ELSE IF Head(list) = x THEN Tail(list)
    ELSE <<Head(list)>> \o ListRemove(Tail(list), x)

\* the loop of remove_command_handler, remove_message_handler and
\* remove_join_handler: it walks the list by index while removing from it
RECURSIVE RemoveLoop(_, _, _)
RemoveLoop(list, i, h) ==
    IF i > Len(list) THEN list
    ELSE IF list[i].h = h THEN RemoveLoop(ListRemove(list, list[i]), i + 1, h)
    ELSE RemoveLoop(list, i + 1, h)

\* Client.remove_command_handler
RemoveCommandHandler(s, h) == [s EXCEPT !.handlers = RemoveLoop(@, 1, h)]

\* Client.remove_join_handler
RemoveJoinHandler(s, h) == [s EXCEPT !.joinHandlers = RemoveLoop(@, 1, h)]

\* Client.remove_message_handler
RemoveMessageHandler(s, h) == [s EXCEPT !.msgHandlers = RemoveLoop(@, 1, h)]

\* a _bg whose task goes before the tasks that wait
BgFront(s, h, kind, arg) ==
    [s EXCEPT !.spawned = <<[h |-> h, kind |-> kind, arg |-> arg]>> \o @,
              !.ready = <<[op |-> "task", h |-> h]>> \o @]

\* Client._bg: asyncio.ensure_future puts the new task on the ready queue
Bg(s, h, kind, arg) ==
    [s EXCEPT !.spawned = Append(@, [h |-> h, kind |-> kind, arg |-> arg]),
              !.ready = Append(@, [op |-> "task", h |-> h])]

------------------------------------------------------------------------------
(* Futures of the await helpers.                                            *)

\* the handler await_command registers for future f
AwaitFn(f) == Fn("await", f, None)

\* the handler await_message registers for future f
AwaitMessageFn(f) == Fn("await_message", f, None)

\* the task of run awaits no future
NoFut == 0 - 1
NoAwait == [fut |-> NoFut, msg |-> None, i |-> 0]

\* the closure waiter of a blocking join of channel that awaits future f
WaiterFn(f, channel) == Fn("waiter", f, channel)

\* the done-callbacks of future f in the order they were added: the removal
\* await_command and await_message add to their futures, then the
\* wakeup of the task awaiting it: _connect awaits future 0, the end of the
\* MOTD, the program a blocking join, the task of run a future inside a
\* command handler
Callbacks(s, f) ==
    (IF f \in DOMAIN s.calls
     THEN <<[op |-> "remove_command_handler", h |-> AwaitFn(f)]>>
     ELSE IF f \in s.msgFuts
     THEN <<[op |-> "remove_message_handler", h |-> AwaitMessageFn(f)]>>
     ELSE <<>>)
    \o (IF f = 0 THEN <<[op |-> "wake_connect", h |-> AwaitFn(f)]>>
        ELSE IF f \in DOMAIN s.joining
        THEN <<[op |-> "wake_join", h |-> WaiterFn(f, s.joining[f])]>>
        ELSE IF f = s.awaits.fut THEN <<[op |-> "wake_run", h |-> AwaitFn(f)]>>
        ELSE <<>>)

\* Future.set_result: InvalidStateError unless pending; the callbacks are
\* scheduled with call_soon, they do not run here
SetResult(s, f) ==
    IF s.futs[f] # "pending" THEN Raise(s, "InvalidStateError")
    ELSE [s EXCEPT !.futs[f] = "done", !.ready = @ \o Callbacks(s, f)]

\* Future.cancel
Cancel(s, f) ==
    IF s.futs[f] # "pending" THEN s
    ELSE [s EXCEPT !.futs[f] = "cancelled", !.ready = @ \o Callbacks(s, f)]

\* Client.await_command(*args): a new future f and its handler
AwaitCommand(s, f, args) ==
    [s EXCEPT !.futs = (f :> "pending") @@ @,
              !.calls = (f :> 0) @@ @,
              !.handlers = Append(@, CommandHandler(args, None, AwaitFn(f)))]

\* Client.await_message(): a new future f and its handler, which every
\* message matches
AwaitMessage(s, f) ==
    OnMessage([s EXCEPT !.futs = (f :> "pending") @@ @, !.msgFuts = @ \cup {f}],
              None, None, None, "None", AwaitMessageFn(f))

------------------------------------------------------------------------------
(* The roster.                                                              *)

\* the id of a new object: the smallest one no live object has
FreshId(s) == CHOOSE i \in 1..(Cardinality(DOMAIN s.objs) + 1) :
                  /\ i \notin DOMAIN s.objs
                  /\ \A j \in 1..(i - 1) : j \in DOMAIN s.objs

\* a get_user that takes every hostmask for missing
HostmaskKnownNever(hostmask) == FALSE

\* "elif not user.hostmask" is not taken
HostmaskKnown(hostmask) == Truthy(hostmask)

\* Client.get_user: <<state, user>>; a prefix of None raises in '"!" in nick'
GetUser(s, nickOrPrefix) ==
    LET New(n, hostmask, u) ==
            <<[s EXCEPT !.objs = (u :> [name |-> n, hostmask |-> hostmask]) @@ @,
                        !.users = (n :> u) @@ @], u>>
        Old(hostmask, u) ==
            IF ~HostmaskKnown(s.objs[u].hostmask)
            THEN <<[s EXCEPT !.objs[u].hostmask = hostmask], u>>
            ELSE <<s, u>>
        Lookup(n, hostmask) ==
            IF n \notin DOMAIN s.users THEN New(n, hostmask, FreshId(s))
            ELSE Old(hostmask, s.users[n])
        Parts(parts) == Lookup(parts[1], parts[3])
    IN  IF nickOrPrefix = None THEN <<Raise(s, "TypeError"), 0>>
        ELSE IF Contains(nickOrPrefix, <<"!">>)
        THEN Parts(Partition(nickOrPrefix, <<"!">>))
        ELSE Lookup(nickOrPrefix, None)

\* Client.get_channel: the state with the channel in the index
GetChannel(s, name) ==
    IF name \in DOMAIN s.chans THEN s
    ELSE [s EXCEPT !.chans = (name :> <<>>) @@ @,
                   !.chanNames = (name :> name) @@ @]

\* the set entry a lookup of an object named n, identical to object u or not
\* (u = 0: an object built for the lookup), ends at: the hash is compared
\* first, then identity, then User.__eq__; 0 when there is none
SetFind(s, entries, n, u) ==
    First({i \in 1..Len(entries) :
              /\ entries[i].hash = n
              /\ (entries[i].u = u \/ s.objs[entries[i].u].name = n)})

RemoveAt(seq, i) == SubSeq(seq, 1, i - 1) \o SubSeq(seq, i + 1, Len(seq))

\* set.add(user) on the users of channel c
SetAdd(s, c, u) ==
    IF SetFind(s, s.chans[c], s.objs[u].name, u) # 0 THEN s
    ELSE [s EXCEPT !.chans[c] = Append(@, [hash |-> s.objs[u].name, u |-> u])]

\* set.discard(user) on the users of channel c
SetDiscard(s, c, u) ==
    LET At(i) == IF i = 0 THEN s ELSE [s EXCEPT !.chans[c] = RemoveAt(@, i)]
    IN  At(SetFind(s, s.chans[c], s.objs[u].name, u))

\* set.remove(user) on the users of channel c: KeyError when the lookup
\* finds nothing
SetRemove(s, c, u) ==
    LET At(i) == IF i = 0 THEN Raise(s, "KeyError")
                 ELSE [s EXCEPT !.chans[c] = RemoveAt(@, i)]
    IN  At(SetFind(s, s.chans[c], s.objs[u].name, u))

\* Channel.__contains__ with a User named n built for the test
ChannelContains(s, c, n) == SetFind(s, s.chans[c], n, 0) # 0

\* the names of the objects in Channel.users
MemberNames(s, c) == {s.objs[s.chans[c][i].u].name : i \in 1..Len(s.chans[c])}

------------------------------------------------------------------------------
(* The command handlers.                                                    *)

\* Client._on_join.gather_nicks, the closure that captured channel h.chan;
\* toks is what is left of msg.rest.strip().split(" ")
RECURSIVE GatherLoop(_, _, _)
GatherLoop(s, h, toks) ==
    LET Got(got) == GatherLoop(SetAdd(got[1], h.chan, got[2]), h, Tail(toks))
        Strip(tok) == /\ tok[1] \in DOMAIN s.prefixMap
                      /\ Truthy(s.prefixMap[tok[1]])
        Tok(tok) == IF tok = <<>> THEN Raise(s, "IndexError")
                    ELSE Got(GetUser(s, IF Strip(tok) THEN DropFirst(tok, 1) ELSE tok))
    IN  IF s.exc # NoExc \/ toks = <<>> THEN s ELSE Tok(Head(toks))

GatherNicks(s, h, msg) ==
    IF msg.rest = None THEN Raise(s, "AttributeError")
    ELSE GatherLoop(s, h, SplitOn(StripChars(msg.rest, {" ", "\t", "\n", "\r"}), <<" ">>))

\* the loop of join_finished over the join handlers
RECURSIVE StartJoinHandlers(_, _, _)
StartJoinHandlers(s, c, i) ==
    IF i > Len(s.joinHandlers) THEN s
    ELSE IF ~Truthy(s.joinHandlers[i].channel) \/ s.joinHandlers[i].channel = c
    THEN StartJoinHandlers(Bg(s, s.joinHandlers[i].h, "join", c), c, i + 1)
    ELSE StartJoinHandlers(s, c, i + 1)

\* join_finished without the removal of itself
JoinFinishedStays(s, h, msg) ==
    StartJoinHandlers(RemoveCommandHandler(s, Fn("gather_nicks", h.id, h.chan)), h.chan, 1)

\* Client._on_join.join_finished, the closure h
JoinFinished(s, h, msg) ==
    StartJoinHandlers(
        RemoveCommandHandler(RemoveCommandHandler(s, Fn("gather_nicks", h.id, h.chan)), h),
        h.chan, 1)

\* Client._on_join
OnJoin(s, msg) ==
    LET Reg(s1, c, k) ==
            [s1 EXCEPT !.nJoins = k,
                       !.handlers = @ \o
                         <<CommandHandler(<<RPL_NAMREPLY, s1.nick, <<"@">>, c>>, None,
                                          Fn("gather_nicks", k, c)),
                           CommandHandler(<<RPL_NAMREPLY, s1.nick, <<"*">>, c>>, None,
                                          Fn("gather_nicks", k, c)),
                           CommandHandler(<<RPL_NAMREPLY, s1.nick, <<"=">>, c>>, None,
                                          Fn("gather_nicks", k, c)),
                           CommandHandler(<<RPL_ENDOFNAMES, s1.nick, c>>, None,
                                          Fn("join_finished", k, c))>>]
        Got(s1, u, c) ==
            IF s1.exc # NoExc THEN s1
            ELSE IF s1.objs[u].name # s1.nick THEN SetAdd(s1, c, u)
            ELSE Reg(s1, c, s1.nJoins + 1)
        Pair(got) == Got(got[1], got[2], msg.rest)
    IN  Pair(GetUser(GetChannel(s, msg.rest), msg.prefix))

\* the loop of _on_quit over the channels
RECURSIVE DiscardAll(_, _, _)
DiscardAll(s, cs, u) ==
    LET One(c) == DiscardAll(SetDiscard(s, c, u), cs \ {c}, u)
    IN  IF cs = {} THEN s ELSE One(CHOOSE x \in cs : TRUE)

\* Client._on_quit
OnQuit(s, msg) ==
    LET Del(s2, n) == [s2 EXCEPT !.users = [k \in DOMAIN @ \ {n} |-> @[k]]]
        Got(s1, u) == IF s1.exc # NoExc THEN s1
                      ELSE Del(DiscardAll(s1, DOMAIN s1.chans, u), s1.objs[u].name)
        Pair(got) == Got(got[1], got[2])
    IN  Pair(GetUser(s, msg.prefix))

\* Client._on_part
OnPart(s, msg) ==
    LET Got(s1, u) == IF s1.exc # NoExc THEN s1
                      ELSE IF Len(msg.args) < 2 THEN Raise(s1, "IndexError")
                      ELSE SetRemove(GetChannel(s1, msg.args[2]), msg.args[2], u)
        Pair(got) == Got(got[1], got[2])
    IN  Pair(GetUser(s, msg.prefix))

\* a rename that leaves the old key in the index
RekeyKeepsOld(index, old, new, u) == (new :> u) @@ index

\* "del self._users[old_nick]" and "self._users[user.name] = user"
Rekey(index, old, new, u) == (new :> u) @@ [k \in DOMAIN index \ {old} |-> index[k]]

\* Client._on_nick
OnNick(s, msg) ==
    LET Ren(s1, u, old, new) ==
            [s1 EXCEPT !.objs[u].name = new,
                       !.nick = IF old = s1.nick THEN new ELSE @,
                       !.users = Rekey(@, old, new, u)]
        Got(s1, u) == IF s1.exc # NoExc THEN s1
                      ELSE Ren(s1, u, s1.objs[u].name, msg.rest)
        Pair(got) == Got(got[1], got[2])
    IN  Pair(GetUser(s, msg.prefix))

\* a nick_in_use that does not tell the server
NickInUseSilent(s, msg) == [s EXCEPT !.nick = @ \o <<"_">>]

\* Client._connect.nick_in_use
NickInUse(s, msg) ==
    Send([s EXCEPT !.nick = @ \o <<"_">>], <<NICK, s.nick \o <<"_">>>>, None)

\* dict(zip(prefixes, modes)): of two equal keys the later one stays
ZipDict(prefixes, modes) ==
    LET Upto(n) == [c \in {prefixes[i] : i \in 1..n} |->
                       <<modes[CHOOSE i \in 1..n :
                                  /\ prefixes[i] = c
                                  /\ \A j \in (i + 1)..n : prefixes[j] # c]>>]
    IN  Upto(IF Len(prefixes) < Len(modes) THEN Len(prefixes) ELSE Len(modes))

\* Client._connect.feature_list, args the tokens still to look at
RECURSIVE FeatureLoop(_, _)
FeatureLoop(s, args) ==
    LET Pm(pm) == ZipDict(pm[3], pm[1])
        Set(feature, value) ==
            [s EXCEPT !.chanTypes =
                          IF feature = <<"C", "H", "A", "N", "T", "Y", "P", "E", "S">>
                          THEN value ELSE @,
                      !.prefixMap =
                          IF feature = <<"P", "R", "E", "F", "I", "X">>
                          THEN Pm(Partition(DropFirst(value, 1), <<")">>)) ELSE @]
        Parts(parts) == Set(parts[1], parts[3])
    IN  IF args = <<>> THEN s
        ELSE FeatureLoop(Parts(Partition(Head(args), <<"=">>)), Tail(args))

FeatureList(s, msg) == FeatureLoop(s, msg.args)

\* the number of a new future
NewFut(s) == Cardinality(DOMAIN s.futs \ {0}) + 1

\* Client.join(channel, block=True) up to "await fut": the waiter of the new
\* future f is registered and JOIN is sent
Join(s, f, channel) ==
    Send([s EXCEPT !.futs = (f :> "pending") @@ @,
                   !.joinHandlers = Append(@, JoinHandler(channel, WaiterFn(f, channel)))],
         <<JOIN, channel>>, None)

\* an "await fut" that never waits
AwaitFutureNever(s, f) == s

\* "await fut" inside a command handler: it goes on when the future is done,
\* raises when it is cancelled, and while it is pending the task of run waits
\* for it
AwaitFuture(s, f) ==
    IF s.futs[f] = "pending" THEN [s EXCEPT !.awaits = [NoAwait EXCEPT !.fut = f]]
    ELSE IF s.futs[f] = "cancelled" THEN Raise(s, "CancelledError")
    ELSE s

\* the body of a function of the program that does
\* "await client.join(channel, block=True)"
JoinsBody(s, f, channel) == AwaitFuture(Join(s, f, channel), f)

\* the handler of await_command: fut.set_result(msg)
AwaitHandler(s, h, msg) == SetResult([s EXCEPT !.calls[h.id] = @ + 1], h.id)

\* a handler is awaited: its body runs here; a function of the program
\* returns at once, or awaits a future the program got from await_command
\* ("awaits", the future number id), or awaits a blocking join ("joins")
Invoke(s, ch, msg) ==
    CASE ch.h.fn = "on_join" -> OnJoin(s, msg)
      [] ch.h.fn = "on_quit" -> OnQuit(s, msg)
      [] ch.h.fn = "on_part" -> OnPart(s, msg)
      [] ch.h.fn = "on_nick" -> OnNick(s, msg)
      [] ch.h.fn = "nick_in_use" -> NickInUse(s, msg)
      [] ch.h.fn = "feature_list" -> FeatureList(s, msg)
      [] ch.h.fn = "gather_nicks" -> GatherNicks(s, ch.h, msg)
      [] ch.h.fn = "join_finished" -> JoinFinished(s, ch.h, msg)
      [] ch.h.fn = "await" -> AwaitHandler(s, ch.h, msg)
      [] ch.h.fn = "awaits" -> AwaitFuture(s, ch.h.id)
      [] ch.h.fn = "joins" -> JoinsBody(s, NewFut(s), ch.h.chan)
      [] OTHER -> s

------------------------------------------------------------------------------
(* The dispatch of one line.                                                *)

\* the test of Client.run on a command handler: msg.args[:len(ch.args)]
Matches(ch, msg) ==
    /\ ch.args = SubSeq(msg.args, 1, IF Len(ch.args) < Len(msg.args)
                                     THEN Len(ch.args) ELSE Len(msg.args))
    /\ (~Truthy(ch.rest) \/ ch.rest = msg.rest)

\* a loop that starts the handler as a background task and goes on
AwaitInBackground(s, ch, msg) == Bg(s, ch.h, "command", msg)

\* "await ch.handler(msg)": the handler runs to its end inside the turn of the
\* loop
Await(s, ch, msg) == Invoke([s EXCEPT !.invoked = Append(@, ch)], ch, msg)

\* for ch in self._on_command_handlers: the list is read by index while the
\* handlers it calls add to it and remove from it; a handler that waits for a
\* future keeps the loop at its place i in the list
RECURSIVE Dispatch(_, _, _)
Dispatch(s, msg, i) ==
    IF s.exc # NoExc THEN s
    ELSE IF s.awaits.fut # NoFut THEN [s EXCEPT !.awaits.msg = msg, !.awaits.i = i]
    ELSE IF i > Len(s.handlers) THEN s
    ELSE IF Matches(s.handlers[i], msg)
    THEN Dispatch(Await(s, s.handlers[i], msg), msg, i + 1)
    ELSE Dispatch(s, msg, i + 1)

\* Client._resolve_sender: <<state, user or 0 for None>>
ResolveSender(s, prefix) ==
    IF prefix = None THEN <<Raise(s, "TypeError"), 0>>
    ELSE IF Contains(prefix, <<"!">>) /\ Contains(prefix, <<"@">>) THEN GetUser(s, prefix)
    ELSE <<s, 0>>

\* Client._resolve_recipient: <<state, recipient>>
ResolveRecipient(s, recipient) ==
    LET Got(got) == <<got[1], [kind |-> "User", name |-> got[1].objs[got[2]].name]>>
    IN  IF recipient[1] \in {s.chanTypes[i] : i \in 1..Len(s.chanTypes)}
        THEN <<GetChannel(s, recipient), [kind |-> "Channel", name |-> recipient]>>
        ELSE Got(GetUser(s, recipient))

\* Message
Message(sender, recipient, text, notice) ==
    [sender |-> sender, recipient |-> recipient, text |-> text, notice |-> notice]

\* re.compile(lit + "(?P<group>.*)"): the patterns the program filters with
RegEx(group, lit) == <<"<re>", group>> \o lit

\* hasattr(x, "search")
IsRegEx(x) == x # <<>> /\ x[1] = "<re>"

\* what one matcher returns: r is "start" (True or a dict, kwargs), "skip"
\* (None or False) or the exception it raised
NoKwargs == [k \in {} |-> <<>>]
Pass == [r |-> "start", kwargs |-> NoKwargs]
Fail == [r |-> "skip", kwargs |-> NoKwargs]
Throws(e) == [r |-> e, kwargs |-> NoKwargs]
Truth(b) == IF b THEN Pass ELSE Fail

\* m = re.search(text) and "if m is not None: return m.groupdict()": the
\* leftmost occurrence of the literal, the group takes the rest of the text
Search(re, text) ==
    LET At(i, lit) ==
            IF i = 0 THEN Fail
            ELSE [r |-> "start", kwargs |-> (re[2] :> SubSeq(text, i + Len(lit), Len(text)))]
    IN  IF text = None THEN Throws("TypeError")
        ELSE At(Find(text, DropFirst(re, 2)), DropFirst(re, 2))

\* a matcher list without notice_matcher
NoticeMatcherAbsent(mh, m) == Pass

\* on_message.notice_matcher, when notice is not None
NoticeMatcher(mh, m) ==
    IF mh.notice = "None" THEN Pass ELSE Truth((mh.notice = "True") = m.notice)

\* the new_matcher closure Channel.on_message builds with accept_query=True
\* and no matcher of the caller, bound to the channel called name
NewMatcher(name) == <<"<new_matcher>">> \o name

\* "if matcher: matchers.append(matcher)": new_matcher fails on
\* "msg.recipient is not self and not isinstance(msg.sender, User)"; the
\* client keeps one Channel object per name, so identity is the name
CustomMatcher(mh, m) ==
    IF mh.matcher = None THEN Pass
    ELSE Truth(~ (/\ m.recipient # [kind |-> "Channel", name |-> DropFirst(mh.matcher, 1)]
                  /\ m.sender = 0))

\* the matcher of on_message for its message filter
MessageFilter(mh, m) ==
    IF mh.message = None THEN Pass
    ELSE IF IsRegEx(mh.message) THEN Search(mh.message, m.text)
    ELSE Truth(m.text = mh.message)

\* the matcher of on_message for its sender filter: msg.sender is None for a
\* message of the server
SenderFilter(s, mh, m) ==
    IF mh.sender = None THEN Pass
    ELSE IF m.sender = 0 THEN Throws("AttributeError")
    ELSE IF IsRegEx(mh.sender) THEN Search(mh.sender, s.objs[m.sender].name)
    ELSE Truth(s.objs[m.sender].name = mh.sender)

\* the matcher of on_message for its channel filter
ChannelFilter(mh, m) ==
    IF mh.channel = None THEN Pass
    ELSE IF m.recipient.kind # "Channel" THEN Fail
    ELSE IF IsRegEx(mh.channel) THEN Search(mh.channel, m.recipient.name)
    ELSE Truth(m.recipient.name = mh.channel)

\* one turn of "for m in matchers": a failure ends the loop, a dict goes into
\* fn_kwargs with dict.update
Merge(acc, ret) ==
    IF acc.r # "start" THEN acc
    ELSE IF ret.r # "start" THEN ret
    ELSE [r |-> "start", kwargs |-> ret.kwargs @@ acc.kwargs]

\* the message_matcher of on_message on message m: r is "start" with the
\* kwargs for the handler, "skip" (it returned None) or the exception a
\* matcher raised
MessageMatcher(s, mh, m) ==
    Merge(Merge(Merge(Merge(NoticeMatcher(mh, m), CustomMatcher(mh, m)),
                      MessageFilter(mh, m)),
                SenderFilter(s, mh, m)),
          ChannelFilter(mh, m))

\* Client._handle_on_message
RECURSIVE HandleOnMessage(_, _, _)
HandleOnMessage(s, m, i) ==
    LET On(ret) ==
            IF ret.r = "start"
            THEN HandleOnMessage(Bg(s, s.msgHandlers[i].h, "message",
                                    [message |-> m, kwargs |-> ret.kwargs]), m, i + 1)
            ELSE IF ret.r = "skip" THEN HandleOnMessage(s, m, i + 1)
            ELSE Raise(s, ret.r)
    IN  IF i > Len(s.msgHandlers) THEN s
        ELSE On(MessageMatcher(s, s.msgHandlers[i], m))

\* a loop that does not look at _connected
RegisteringNever(s) == FALSE

\* "if not self._connected: continue"
Registering(s) == ~s.connected

\* the part of Client.run after the command handlers
DeliverMessage(s, msg) ==
    LET Rcp(rcp, sender) ==
            HandleOnMessage(rcp[1], Message(sender, rcp[2], msg.rest, msg.args[1] = NOTICE), 1)
        Snd(snd) == IF snd[1].exc # NoExc THEN snd[1]
                    ELSE IF Len(msg.args) < 2 THEN Raise(snd[1], "IndexError")
                    ELSE Rcp(ResolveRecipient(snd[1], msg.args[2]), snd[2])
    IN  IF Registering(s) THEN s
        ELSE IF msg.args[1] \notin {PRIVMSG, NOTICE} THEN s
        ELSE Snd(ResolveSender(s, msg.prefix))

\* a _handle_special that answers nothing
IsPingNever(msg) == FALSE

\* Client._handle_special: the PING that is answered and goes no further
IsPing(msg) == msg.args[1] = PING

\* the turn of the loop for msg from the command handler at place i on, then
\* the message handlers
Turn(s, msg, i) ==
    LET After(s1) == IF s1.exc # NoExc \/ s1.awaits.fut # NoFut THEN s1
                     ELSE DeliverMessage(s1, msg)
    IN  After(Dispatch(s, msg, i))

\* where the task of run is after a turn that left the state s
RunStateAfter(s, now) ==
    IF s.exc # NoExc THEN "crashed"
    ELSE IF s.awaits.fut # NoFut THEN "blocked"
    ELSE now

\* one turn of the loop of Client.run on the line raw that readline returned:
\* _get_message (decode, strip, _parsemsg, _handle_special), then the command
\* handlers, then the message handlers
ProcessRaw(s, raw) ==
    LET Msg(msg) == IF msg.kind = "raise" THEN Raise(s, "ValueError")
                    ELSE IF msg.kind = "none" THEN s
                    ELSE IF msg.args = <<>> THEN Raise(s, "IndexError")
                    ELSE IF IsPing(msg) THEN Send(s, <<PONG>>, msg.rest)
                    ELSE Turn(s, msg, 1)
    IN  Msg(Parsemsg(StripChars(raw, {"\r", "\n"})))

\* objects nothing refers to any more are gone
Collect(s) ==
    [s EXCEPT !.objs =
        [u \in {s.users[k] : k \in DOMAIN s.users}
               \cup UNION {{s.chans[c][i].u : i \in 1..Len(s.chans[c])} : c \in DOMAIN s.chans}
         |-> @[u]]]

------------------------------------------------------------------------------
(* What the server reported, read off the lines it sent: the history the    *)
(* properties of the roster are stated against.                             *)

Range(f) == {f[x] : x \in DOMAIN f}

\* the nick of a sender prefix nick!user@host
SenderNick(prefix) == IF prefix = None THEN None ELSE Partition(prefix, <<"!">>)[1]

\* the users a name list names: its tokens, one leading membership prefix (a
\* key of the PREFIX map pm) taken off each
Named(rest, pm) ==
    {IF tok[1] \in DOMAIN pm THEN Tail(tok) ELSE tok :
        tok \in {k \in Range(SplitWs(rest)) : k # <<>>}}

\* the join handshake the server last began with the client: the channel, how
\* far it is ("open" after the client's own JOIN, "done" from the 366 on), the
\* users named by its 353 lines, the own JOINs (joins) and the 366 lines (ends)
\* counted up to two, the client's nick at the JOIN (me), whether the JOIN came
\* when the client was not in the channel (orderly: its first JOIN, or the one
\* after its own PART, given in left), and whether the server sent only 353
\* and 366 lines for the channel since the JOIN (clean)
NoListing ==
    [chan |-> None, phase |-> "none", names |-> {}, joins |-> 0, ends |-> 0,
     me |-> None, orderly |-> TRUE, clean |-> TRUE]

Min2(n) == IF n < 2 THEN n ELSE 2

ListingAfter(l, left, me, pm, p) ==
    LET Cmd(c) ==
            IF c = JOIN /\ SenderNick(p.prefix) = me
            THEN [chan |-> p.rest, phase |-> "open", names |-> {},
                  joins |-> IF l.phase = "open" /\ l.chan = p.rest
                            THEN Min2(l.joins + 1) ELSE 1,
                  ends |-> 0, me |-> me,
                  orderly |-> (l.phase = "none"
                               \/ (l.phase = "done" /\ p.rest \in left)),
                  clean |-> TRUE]
            ELSE IF l.phase = "none" THEN l
            ELSE IF c = RPL_NAMREPLY /\ Len(p.args) = 4 /\ p.args[4] = l.chan
                    /\ p.rest # None
            THEN IF l.phase = "open"
                 THEN [l EXCEPT !.names = @ \cup Named(p.rest, pm)]
                 ELSE [l EXCEPT !.clean = FALSE]
            ELSE IF c = RPL_ENDOFNAMES /\ Len(p.args) = 3 /\ p.args[3] = l.chan
            THEN [l EXCEPT !.phase = "done", !.ends = Min2(@ + 1)]
            ELSE [l EXCEPT !.clean = FALSE]
    IN  IF p.kind # "msg" \/ p.args = <<>> THEN l ELSE Cmd(p.args[1])

\* the departures the server reported: gone holds <<channel, nick>> for a user
\* whose PART from the channel or whose QUIT was reported after the user was
\* last reported in the channel and after the client's last own JOIN of it;
\* left holds the channels the client's own PART was reported for since its
\* last own JOIN.  cs are the channels the client knows.
NoDeparted == [gone |-> {}, left |-> {}]

DepartedAfter(d, me, pm, cs, p) ==
    LET Who(u, c) ==
            IF c = JOIN /\ u = me
            THEN [gone |-> {g \in d.gone : g[1] # p.rest}, left |-> d.left \ {p.rest}]
            ELSE IF c = JOIN
            THEN [d EXCEPT !.gone = @ \ {<<p.rest, u>>}]
            ELSE IF c = RPL_NAMREPLY /\ Len(p.args) = 4 /\ p.rest # None
            THEN [d EXCEPT !.gone = @ \ {<<p.args[4], n>> : n \in Named(p.rest, pm)}]
            ELSE IF c = PART /\ Len(p.args) >= 2 /\ u = me
            THEN [d EXCEPT !.left = @ \cup {p.args[2]}]
            ELSE IF c = PART /\ Len(p.args) >= 2
            THEN [d EXCEPT !.gone = @ \cup {<<p.args[2], u>>}]
            ELSE IF c = QUIT
            THEN [d EXCEPT !.gone = @ \cup {<<ch, u>> : ch \in cs}]
            ELSE IF c = NICK /\ p.rest # None
            THEN [d EXCEPT !.gone = {IF g[2] = u THEN <<g[1], p.rest>> ELSE g : g \in @}]
            ELSE d
    IN  IF p.kind # "msg" \/ p.args = <<>> THEN d
        ELSE Who(SenderNick(p.prefix), p.args[1])

------------------------------------------------------------------------------
(* The state.                                                               *)

VARIABLES
    handlers,      \* Client._on_command_handlers
    msgHandlers,   \* Client._on_message_handlers
    joinHandlers,  \* Client._on_join_handlers
    users,         \* Client._users
    objs,          \* the User objects
    chans,         \* Client._channels and each Channel.users
    nick,          \* Client.nick
    chanTypes,     \* Client._channel_types
    prefixMap,     \* Client._prefix_map
    connected,     \* Client._connected
    futs,          \* the futures of await_command
    ready,         \* the event loop's ready queue
    runState,      \* where the task of Client.run is
    connPc,        \* where the task of Client._connect is
    nJoins,        \* closures _on_join has created
    calls,         \* history: invocations of each await helper's handler
    exc,           \* the exception that ended Client.run, NoExc if none
    lastRaw,       \* history: the line the last step processed, None if none
    sent,          \* history: the lines the last step wrote
    invoked,       \* history: the command handlers the last step called
    spawned,       \* history: the background tasks the last step started
    nLines,        \* history: lines processed
    seenMotd,      \* history: a line with command 376 was processed
    listing,       \* history: the join handshake the server last began
    departed,      \* history: the departures the server reported
    connectedHandlers,  \* Client._on_connected_handlers
    chanNames,     \* the name field of each Channel of Client._channels
    module,        \* a Module of the program and its channel proxies
    call,          \* history: the call of the program made in the last step
    joining,       \* the blocking joins that await their future: future -> channel
    runAwaits,     \* the future the task of run awaits inside a command handler
    msgFuts        \* the futures of await_message

vars == <<handlers, msgHandlers, joinHandlers, users, objs, chans, nick, chanTypes,
          prefixMap, connected, futs, ready, runState, connPc, nJoins, calls, exc,
          lastRaw, sent, invoked, spawned, nLines, seenMotd, listing, departed,
          connectedHandlers, chanNames, module, call, joining, runAwaits, msgFuts>>

\* the state as the record the handlers work on, the step's history empty
Cur ==
    [handlers |-> handlers, msgHandlers |-> msgHandlers, joinHandlers |-> joinHandlers,
     connectedHandlers |-> connectedHandlers,
     users |-> users, objs |-> objs, chans |-> chans, chanNames |-> chanNames,
     nick |-> nick,
     chanTypes |-> chanTypes, prefixMap |-> prefixMap, connected |-> connected,
     futs |-> futs, joining |-> joining, awaits |-> runAwaits, msgFuts |-> msgFuts,
     ready |-> ready,
     nJoins |-> nJoins,
     calls |-> calls,
     exc |-> NoExc, sent |-> <<>>, invoked |-> <<>>, spawned |-> <<>>]

\* the record s becomes the next state
Commit(s) ==
    /\ handlers' = s.handlers
    /\ msgHandlers' = s.msgHandlers
    /\ joinHandlers' = s.joinHandlers
    /\ connectedHandlers' = s.connectedHandlers
    /\ chanNames' = s.chanNames
    /\ users' = s.users
    /\ objs' = s.objs
    /\ chans' = s.chans
    /\ nick' = s.nick
    /\ chanTypes' = s.chanTypes
    /\ prefixMap' = s.prefixMap
    /\ connected' = s.connected
    /\ futs' = s.futs
    /\ joining' = s.joining
    /\ runAwaits' = s.awaits
    /\ msgFuts' = s.msgFuts
    /\ ready' = s.ready
    /\ nJoins' = s.nJoins
    /\ calls' = s.calls
    /\ sent' = s.sent
    /\ invoked' = s.invoked
    /\ spawned' = s.spawned

\* no call of the program in this step
NoCall == [op |-> "none", arg |-> None, ret |-> 0, exc |-> NoExc]

\* Module.__init__ (client is None, nothing buffered), and no channel proxy
NoModule == [client |-> FALSE, buffered |-> <<>>, proxies |-> <<>>, made |-> 0]

\* the constructor's arguments
Nick0 == <<"b", "o", "t">>
User0 == <<"b", "o", "t">>
Realname0 == <<"T", "h", "e", " ", "B", "o", "t">>
Password0 == None

\* a function with no argument: an empty dict
Empty == [k \in {} |-> 0]

\* the handlers Client.__init__ registers
BaseHandlers ==
    <<CommandHandler(<<JOIN>>, None, Fn("on_join", 0, None)),
      CommandHandler(<<QUIT>>, None, Fn("on_quit", 0, None)),
      CommandHandler(<<PART>>, None, Fn("on_part", 0, None)),
      CommandHandler(<<NICK>>, None, Fn("on_nick", 0, None))>>

\* Client.__init__
Init ==
    /\ handlers = BaseHandlers
    /\ msgHandlers = <<>>
    /\ joinHandlers = <<>>
    /\ connectedHandlers = <<>>
    /\ users = Empty
    /\ objs = Empty
    /\ chans = Empty
    /\ chanNames = Empty
    /\ nick = Nick0
    /\ chanTypes = <<"#", "&">>
    /\ prefixMap = ("@" :> <<"o">>) @@ ("+" :> <<"v">>)
    /\ connected = FALSE
    /\ futs = Empty
    /\ joining = Empty
    /\ runAwaits = NoAwait
    /\ msgFuts = {}
    /\ ready = <<>>
    /\ runState = "new"
    /\ connPc = "new"
    /\ nJoins = 0
    /\ calls = Empty
    /\ exc = NoExc
    /\ lastRaw = None
    /\ sent = <<>>
    /\ invoked = <<>>
    /\ spawned = <<>>
    /\ nLines = 0
    /\ seenMotd = FALSE
    /\ listing = NoListing
    /\ departed = NoDeparted
    /\ module = NoModule
    /\ call = NoCall

------------------------------------------------------------------------------
(* The tasks and the event loop.  The task of Client.run suspends only in   *)
(* readline, and only when no line is buffered: the lines of one read are   *)
(* processed with no callback or other task in between.  What is scheduled  *)
(* (a done-callback, a task, the wakeup of run when data arrives) runs in   *)
(* the order it was added to the ready queue.                               *)

\* a step that processes no line, writes nothing and starts nothing
NoHistory ==
    sent' = <<>> /\ invoked' = <<>> /\ spawned' = <<>> /\ lastRaw' = None /\ call' = NoCall

RunItem == [op |-> "run", h |-> Fn("run", 0, None)]
ConnectItem == [op |-> "connect", h |-> Fn("_connect", 0, None)]

\* other code runs only while the task of run is not running
Idle == runState \in {"waiting", "queued", "blocked"}

\* Client.run up to its loop: the connection is open, _connect is scheduled
StartRun ==
    /\ runState = "new"
    /\ runState' = "running"
    /\ ready' = Append(ready, ConnectItem)
    /\ NoHistory
    /\ UNCHANGED <<handlers, msgHandlers, joinHandlers, connectedHandlers, users, objs,
                   chans, chanNames, nick,
                   chanTypes, prefixMap, connected, futs, joining, runAwaits, msgFuts, connPc, nJoins, calls, exc,
                   nLines, seenMotd, listing, departed, module>>

\* a line as the codec reads it
Line(raw) == Parsemsg(StripChars(raw, {"\r", "\n"}))

\* the command of a line, None for a line without one: what the server sent,
\* read off the line for the history
Command(raw) ==
    LET Of(p) == IF p.kind = "msg" /\ p.args # <<>> THEN p.args[1] ELSE None
    IN  Of(Line(raw))

\* the line raw is read and goes through one turn of the loop of Client.run
ProcessLine(raw, max) ==
    /\ runState = "running"
    /\ nLines < max
    /\ LET Step(s) ==
               /\ Cardinality(DOMAIN s.objs) <= MaxObjs
               /\ s.nJoins <= MaxJoins
               /\ Commit(s)
               /\ exc' = s.exc
               /\ runState' = RunStateAfter(s, runState)
       IN  Step(Collect(ProcessRaw(Cur, raw)))
    /\ seenMotd' = (seenMotd \/ Command(raw) = RPL_ENDOFMOTD)
    /\ listing' = ListingAfter(listing, departed.left, nick, prefixMap, Line(raw))
    /\ departed' = DepartedAfter(departed, nick, prefixMap, DOMAIN chans, Line(raw))
    /\ lastRaw' = raw
    /\ nLines' = nLines + 1
    /\ call' = NoCall
    /\ UNCHANGED <<connPc, module>>

\* readline finds no buffered line: the task of run waits for data
Suspend ==
    /\ runState = "running"
    /\ runState' = "waiting"
    /\ NoHistory
    /\ UNCHANGED <<handlers, msgHandlers, joinHandlers, connectedHandlers, users, objs,
                   chans, chanNames, nick,
                   chanTypes, prefixMap, connected, futs, joining, runAwaits, msgFuts, ready, connPc, nJoins, calls,
                   exc, nLines, seenMotd, listing, departed, module>>

\* data arrives: the reader's waiter is resolved, the wakeup of run scheduled
DataArrives(max) ==
    /\ runState = "waiting"
    /\ nLines < max
    /\ runState' = "queued"
    /\ ready' = Append(ready, RunItem)
    /\ NoHistory
    /\ UNCHANGED <<handlers, msgHandlers, joinHandlers, connectedHandlers, users, objs,
                   chans, chanNames, nick,
                   chanTypes, prefixMap, connected, futs, joining, runAwaits, msgFuts, connPc, nJoins, calls, exc,
                   nLines, seenMotd, listing, departed, module>>

\* the event loop runs the wakeup of run
ResumeRun ==
    /\ runState = "queued"
    /\ ready # <<>> /\ Head(ready).op = "run"
    /\ runState' = "running"
    /\ ready' = Tail(ready)
    /\ NoHistory
    /\ UNCHANGED <<handlers, msgHandlers, joinHandlers, connectedHandlers, users, objs,
                   chans, chanNames, nick,
                   chanTypes, prefixMap, connected, futs, joining, runAwaits, msgFuts, connPc, nJoins, calls, exc,
                   nLines, seenMotd, listing, departed, module>>

\* Client._connect up to "await end_motd"
ConnectBody(s) ==
    LET Sends(s3) == Send(Send(s3, <<NICK, s3.nick>>, None),
                          <<USER, User0, <<"0">>, <<"*">>>>, Realname0)
    IN  Sends(AwaitCommand(
                OnCommand(
                  OnCommand(IF Truthy(Password0)
                            THEN Send(s, <<<<"P", "A", "S", "S">>, Password0>>, None)
                            ELSE s,
                            <<ERR_NICKNAMEINUSE>>, None, Fn("nick_in_use", 0, None)),
                  <<RPL_ISUPPORT>>, None, Fn("feature_list", 0, None)),
                0, <<RPL_ENDOFMOTD>>))

\* the event loop runs the first step of the task of _connect
ConnectStart ==
    /\ Idle
    /\ ready # <<>> /\ Head(ready).op = "connect"
    /\ Commit(ConnectBody([Cur EXCEPT !.ready = Tail(ready)]))
    /\ connPc' = "await end_motd"
    /\ lastRaw' = None
    /\ call' = NoCall
    /\ UNCHANGED <<runState, exc, nLines, seenMotd, listing, departed, module>>

\* "await handler()": the body of a callback of the program, one that returns
\* or one that raises
CallConnected(s, h) ==
    [s EXCEPT !.invoked = Append(@, h),
              !.exc = IF h.fn = "faulty" THEN "HandlerError" ELSE @]

\* a loop body without try and except
ExceptNothing(s) == s

\* "except: self._log.exception(...)": the exception ends here
ExceptLogs(s) == [s EXCEPT !.exc = NoExc]

\* "for handler in self._on_connected_handlers"
RECURSIVE ConnectedLoop(_, _)
ConnectedLoop(s, i) ==
    LET Go(s1) == IF s1.exc # NoExc THEN s1 ELSE ConnectedLoop(s1, i + 1)
    IN  IF i > Len(s.connectedHandlers) THEN s
        ELSE Go(ExceptLogs(CallConnected(s, s.connectedHandlers[i])))

\* Client._connect after "await end_motd"; what it raises ends in the runner
\* of _bg
ConnectRest(s) ==
    ExceptLogs(ConnectedLoop(
        [RemoveCommandHandler(RemoveCommandHandler(s, Fn("feature_list", 0, None)),
                              Fn("nick_in_use", 0, None))
         EXCEPT !.connected = TRUE], 1))

\* the event loop wakes the task of _connect: end_motd is done
ConnectResume ==
    /\ Idle
    /\ ready # <<>> /\ Head(ready).op = "wake_connect"
    /\ Commit(ConnectRest([Cur EXCEPT !.ready = Tail(ready)]))
    /\ connPc' = "done"
    /\ lastRaw' = None
    /\ call' = NoCall
    /\ UNCHANGED <<runState, exc, nLines, seenMotd, listing, departed, module>>

\* the event loop runs a done-callback of an await helper's future
RunRemoveCallback ==
    /\ Idle
    /\ ready # <<>>
    /\ Head(ready).op \in {"remove_command_handler", "remove_message_handler"}
    /\ Commit(IF Head(ready).op = "remove_command_handler"
              THEN RemoveCommandHandler([Cur EXCEPT !.ready = Tail(ready)], Head(ready).h)
              ELSE RemoveMessageHandler([Cur EXCEPT !.ready = Tail(ready)], Head(ready).h))
    /\ lastRaw' = None
    /\ call' = NoCall
    /\ UNCHANGED <<runState, connPc, exc, nLines, seenMotd, listing, departed, module>>

\* a waiter that stays in the registry
WaiterStays(s, h) == SetResult(s, h.id)

\* Client.join.waiter, the closure h: it removes itself and resolves the
\* future of its join
Waiter(s, h) == SetResult(RemoveJoinHandler(s, h), h.id)

\* "await coro": the body of a handler, the waiter of a blocking join, the
\* handler of await_message (fut.set_result(message)) or a function of the
\* program, one that returns ("user") or one that raises ("faulty")
Body(s, h) ==
    IF h.fn = "faulty" THEN Raise(s, "HandlerError")
    ELSE IF h.fn = "waiter" THEN Waiter(s, h)
    ELSE IF h.fn = "await_message" THEN SetResult(s, h.id)
    ELSE s

\* a runner without try and except
RunnerBare(s, h) == Body(s, h)

\* Client._bg.runner
Runner(s, h) == ExceptLogs(Body(s, h))

\* the event loop runs a background task: the runner of _bg around the body
\* of a user's handler
RunTask ==
    LET Ran(s, h) ==
            /\ Commit(s)
            /\ exc' = IF s.exc = NoExc THEN exc ELSE s.exc
            /\ call' = [op |-> "task", arg |-> h, ret |-> 0, exc |-> Body(Cur, h).exc]
    IN  /\ Idle
        /\ ready # <<>> /\ Head(ready).op = "task"
        /\ Ran(Runner([Cur EXCEPT !.ready = Tail(ready)], Head(ready).h), Head(ready).h)
        /\ lastRaw' = None
        /\ UNCHANGED <<runState, connPc, nLines, seenMotd, listing, departed, module>>

\* readline returns nothing at the end of the stream: the loop ends
Eof ==
    /\ runState = "running"
    /\ runState' = "closed"
    /\ NoHistory
    /\ UNCHANGED <<handlers, msgHandlers, joinHandlers, connectedHandlers, users, objs,
                   chans, chanNames, nick,
                   chanTypes, prefixMap, connected, futs, joining, runAwaits, msgFuts, ready, connPc, nJoins, calls,
                   exc, nLines, seenMotd, listing, departed, module>>

------------------------------------------------------------------------------
(* The program that uses the client: it registers handlers before run is    *)
(* called and from its own tasks, which run while run waits.                *)

UserCode == runState = "new" \/ Idle

UserFns(list) == {list[i].h.id : i \in {j \in 1..Len(list) : list[j].h.fn = "user"}}

\* the registrations the program made so far
Registrations ==
    Cardinality(UserFns(handlers)) + Len(joinHandlers) + Len(msgHandlers)
    + Cardinality(DOMAIN futs \ {0}) + Len(connectedHandlers)

\* client.on_command(*args)(fn) with a function of the program
UserOnCommand(args) ==
    /\ UserCode
    /\ Registrations < MaxUserHandlers
    /\ Commit(OnCommand(Cur, args, None, Fn("user", Cardinality(UserFns(handlers)) + 1, None)))
    /\ lastRaw' = None
    /\ call' = NoCall
    /\ UNCHANGED <<runState, connPc, exc, nLines, seenMotd, listing, departed, module>>

\* client.on_join(channel)(fn), fn a function that returns ("user") or one
\* that raises ("faulty")
UserOnJoinFn(fn, channel) ==
    /\ UserCode
    /\ Registrations < MaxUserHandlers
    /\ Commit([Cur EXCEPT !.joinHandlers =
                   Append(@, JoinHandler(channel, Fn(fn, Len(joinHandlers) + 1, None)))])
    /\ lastRaw' = None
    /\ call' = NoCall
    /\ UNCHANGED <<runState, connPc, exc, nLines, seenMotd, listing, departed, module>>

\* client.on_join(channel)(fn)
UserOnJoin(channel) == UserOnJoinFn("user", channel)

\* client.on_message(message, channel, sender, notice=notice)(fn), fn a
\* function that returns ("user") or one that raises ("faulty")
UserOnMessageFn(fn, message, channel, sender, notice) ==
    LET Called(s) ==
            /\ Commit(s)
            /\ call' = [op |-> "on_message", arg |-> <<message, channel, sender>>,
                        ret |-> 0, exc |-> s.exc]
    IN  /\ UserCode
        /\ Registrations < MaxUserHandlers
        /\ Called(OnMessage(Cur, message, channel, sender, notice,
                            Fn(fn, Len(msgHandlers) + 1, None)))
        /\ lastRaw' = None
        /\ UNCHANGED <<runState, connPc, exc, nLines, seenMotd, listing, departed, module>>

\* client.on_message(message, channel, sender, notice=notice)(fn)
UserOnMessage(message, channel, sender, notice) ==
    UserOnMessageFn("user", message, channel, sender, notice)

\* client.on_connected()(fn), fn a function that returns ("user") or one that
\* raises ("faulty")
UserOnConnected(fn) ==
    /\ UserCode
    /\ Registrations < MaxUserHandlers
    /\ Commit([Cur EXCEPT !.connectedHandlers =
                   Append(@, Fn(fn, Len(connectedHandlers) + 1, None))])
    /\ lastRaw' = None
    /\ call' = NoCall
    /\ UNCHANGED <<runState, connPc, exc, nLines, seenMotd, listing, departed, module>>

\* user = client.get_user(arg)
UserGetUser(arg) ==
    LET Got(got) ==
            /\ Commit(got[1])
            /\ call' = [op |-> "get_user", arg |-> arg, ret |-> got[2], exc |-> got[1].exc]
    IN  /\ UserCode
        /\ Cardinality(DOMAIN objs) < MaxObjs
        /\ Got(GetUser(Cur, arg))
        /\ lastRaw' = None
        /\ UNCHANGED <<runState, connPc, exc, nLines, seenMotd, listing, departed, module>>

\* the task of the program calls client.join(channel, block): with block the
\* waiter is registered before JOIN is sent, and the task awaits the future
UserJoin(channel, block) ==
    LET Joined(f) ==
            IF ~block THEN Send(Cur, <<JOIN, channel>>, None)
            ELSE [Join(Cur, f, channel) EXCEPT !.joining = (f :> channel) @@ @]
        Called(f) ==
            /\ Commit(Joined(f))
            /\ call' = [op |-> "join", arg |-> channel, ret |-> IF block THEN f ELSE 0,
                        exc |-> NoExc]
    IN  /\ Idle
        /\ Cardinality(DOMAIN futs \ {0}) < MaxBlocking
        /\ Called(NewFut(Cur))
        /\ lastRaw' = None
        /\ UNCHANGED <<runState, connPc, exc, nLines, seenMotd, listing, departed, module>>

\* the event loop wakes a blocking join whose future is done: "return await
\* fut" hands the program the channel the waiter was called with
JoinResume ==
    LET Woken(h) ==
            /\ Commit([Cur EXCEPT !.ready = Tail(ready),
                                  !.joining = [f \in DOMAIN @ \ {h.id} |-> @[f]]])
            /\ call' = [op |-> "joined", arg |-> h.chan, ret |-> h.id, exc |-> NoExc]
    IN  /\ Idle
        /\ ready # <<>> /\ Head(ready).op = "wake_join"
        /\ Woken(Head(ready).h)
        /\ lastRaw' = None
        /\ UNCHANGED <<runState, connPc, exc, nLines, seenMotd, listing, departed, module>>

\* the event loop wakes the task of run inside the command handler that
\* awaited a future: a cancelled future raises CancelledError there, which
\* ends run; with a result the handler returns and the turn of the loop goes on
ResumeBlocked ==
    LET Went(s) ==
            /\ Commit(Collect(s))
            /\ exc' = s.exc
            /\ runState' = RunStateAfter(s, "running")
        Woken(s, a) ==
            Went(IF s.futs[a.fut] = "cancelled" THEN Raise(s, "CancelledError")
                 ELSE Turn(s, a.msg, a.i))
    IN  /\ runState = "blocked"
        /\ ready # <<>> /\ Head(ready).op = "wake_run"
        /\ Woken([Cur EXCEPT !.ready = Tail(ready), !.awaits = NoAwait], runAwaits)
        /\ lastRaw' = None
        /\ call' = NoCall
        /\ UNCHANGED <<connPc, nLines, seenMotd, listing, departed, module>>

\* client.on_command(*args)(fn) with a function of the program that awaits
\* in its body: h is Fn("awaits", f, None) or Fn("joins", 0, channel)
UserOnCommandAwaiting(args, h) ==
    /\ UserCode
    /\ \A i \in 1..Len(handlers) : handlers[i].h.fn \notin {"awaits", "joins"}
    /\ Commit(OnCommand(Cur, args, None, h))
    /\ lastRaw' = None
    /\ call' = NoCall
    /\ UNCHANGED <<runState, connPc, exc, nLines, seenMotd, listing, departed, module>>

\* fut = client.await_command(*args)
UserAwaitCommand(args) ==
    /\ UserCode
    /\ Registrations < MaxUserHandlers
    /\ Commit(AwaitCommand(Cur, Cardinality(DOMAIN futs \ {0}) + 1, args))
    /\ lastRaw' = None
    /\ call' = NoCall
    /\ UNCHANGED <<runState, connPc, exc, nLines, seenMotd, listing, departed, module>>

\* fut = client.await_message()
UserAwaitMessage ==
    /\ UserCode
    /\ Registrations < MaxUserHandlers
    /\ Commit(AwaitMessage(Cur, NewFut(Cur)))
    /\ lastRaw' = None
    /\ call' = NoCall
    /\ UNCHANGED <<runState, connPc, exc, nLines, seenMotd, listing, departed, module>>

\* fut.cancel() on a future of await_command or await_message
UserCancel(f) ==
    /\ Idle
    /\ f \in (DOMAIN calls \cup msgFuts) \ {0}
    /\ futs[f] = "pending"
    /\ Commit(Cancel(Cur, f))
    /\ lastRaw' = None
    /\ call' = NoCall
    /\ UNCHANGED <<runState, connPc, exc, nLines, seenMotd, listing, departed, module>>

------------------------------------------------------------------------------
(* Lines of the server.                                                     *)

\* a line as the server writes it
Wire(prefix, args, rest) ==
    (IF prefix # None THEN <<":">> \o prefix \o <<" ">> ELSE <<>>)
    \o JoinSp(args)
    \o (IF rest # None THEN <<" ", ":">> \o rest ELSE <<>>)
    \o <<"\r", "\n">>

Server == <<"s">>
Alice == <<"a", "l", "i", "c", "e">>
Alicia == <<"a", "l", "i", "c", "i", "a">>
AliceMask == Alice \o <<"!", "u", "@", "h">>
ChanX == <<"#", "x">>

\* the nicks the server may know the client by
MyMask == nick \o <<"!", "u", "@", "h">>

\* registration and chat traffic
RegLines ==
    {Wire(None, <<PING>>, <<"x">>),
     Wire(Server, <<PING, <<"x">>>>, None),
     Wire(Server, <<RPL_ENDOFMOTD, nick>>, <<"e">>),
     Wire(Server, <<ERR_NICKNAMEINUSE, <<"*">>, nick>>, <<"u">>),
     Wire(AliceMask, <<PRIVMSG, ChanX>>, <<"h", "i">>),
     Wire(AliceMask, <<NOTICE, nick>>, <<"h", "i">>)}

Next ==
    \/ StartRun
    \/ \E raw \in RegLines : ProcessLine(raw, MaxLines)
    \/ Suspend
    \/ DataArrives(MaxLines)
    \/ ResumeRun
    \/ ConnectStart
    \/ ConnectResume
    \/ RunRemoveCallback
    \/ RunTask
    \/ Eof
    \/ UserOnMessage(None, None, None, "None")
    \/ UserOnCommand(<<PING>>)
    \/ UserAwaitCommand(<<PRIVMSG>>)
    \/ \E f \in DOMAIN futs : UserCancel(f)

Spec == Init /\ [][Next]_vars

\* traffic around the end of the registration
ConnectLines ==
    {Wire(Server, <<RPL_ENDOFMOTD, nick>>, <<"e">>),
     Wire(AliceMask, <<JOIN>>, ChanX),
     Wire(AliceMask, <<PRIVMSG, ChanX>>, <<"h", "i">>)}

\* the registration, with callbacks for its end
NextConnect ==
    \/ StartRun
    \/ \E raw \in ConnectLines : ProcessLine(raw, MaxLines)
    \/ Suspend
    \/ DataArrives(MaxLines)
    \/ ResumeRun
    \/ ConnectStart
    \/ ConnectResume
    \/ RunRemoveCallback
    \/ \E fn \in {"user", "faulty"} : UserOnConnected(fn)

SpecConnect == Init /\ [][NextConnect]_vars

------------------------------------------------------------------------------
(* The client after registration: run was called, _connect ran to its end   *)
(* (its handlers for 433 and 005 and the handler of its await_command are   *)
(* removed again), and the task of run waits for data.  Spec reaches this   *)
(* state (RegisteredReached); the join handshake and the roster are         *)
(* explored from it.                                                        *)

RegisteredProgram ==
    /\ handlers = BaseHandlers
    /\ msgHandlers = <<>>
    /\ joinHandlers = <<>>
    /\ connectedHandlers = <<>>
    /\ users = Empty
    /\ objs = Empty
    /\ chans = Empty
    /\ chanNames = Empty
    /\ nick = Nick0
    /\ chanTypes = <<"#", "&">>
    /\ prefixMap = ("@" :> <<"o">>) @@ ("+" :> <<"v">>)
    /\ connected = TRUE
    /\ futs = (0 :> "done")
    /\ joining = Empty
    /\ runAwaits = NoAwait
    /\ msgFuts = {}
    /\ ready = <<>>
    /\ runState = "waiting"
    /\ connPc = "done"
    /\ nJoins = 0
    /\ calls = (0 :> 1)
    /\ exc = NoExc

RegisteredReached == RegisteredProgram /\ seenMotd

InitRegistered ==
    /\ RegisteredProgram
    /\ lastRaw = None
    /\ sent = <<>>
    /\ invoked = <<>>
    /\ spawned = <<>>
    /\ nLines = 0
    /\ seenMotd = TRUE
    /\ listing = NoListing
    /\ departed = NoDeparted
    /\ module = NoModule
    /\ call = NoCall

Nick2 == <<"b", "o", "t", "2">>
ChanY == <<"#", "y">>
AliciaMask == Alicia \o <<"!", "u", "@", "h">>

\* the lines of a join handshake, with the client's own PART and a change of
\* its own nick by the server
JoinLines ==
    {Wire(MyMask, <<JOIN>>, ChanX),
     Wire(Server, <<RPL_NAMREPLY, nick, <<"=">>, ChanX>>, <<"@">> \o Alice \o <<" ">> \o nick),
     Wire(Server, <<RPL_NAMREPLY, nick, <<"*">>, ChanX>>, nick),
     Wire(Server, <<RPL_ENDOFNAMES, nick, ChanX>>, <<"e">>),
     Wire(MyMask, <<PART, ChanX>>, None)}
    \cup (IF nick = Nick0 THEN {Wire(MyMask, <<NICK>>, Nick2)} ELSE {})

NextJoin ==
    \/ \E raw \in JoinLines : ProcessLine(raw, MaxJoinLines)
    \/ Suspend
    \/ DataArrives(MaxJoinLines)
    \/ ResumeRun
    \/ RunTask
    \/ UserOnCommand(<<RPL_ENDOFNAMES>>)
    \/ \E c \in {None, ChanX, ChanY} : UserOnJoin(c)

SpecJoin == InitRegistered /\ [][NextJoin]_vars

\* the traffic of a channel: users come, go and change their nick
RosterLines ==
    {Wire(MyMask, <<JOIN>>, ChanX),
     Wire(Server, <<RPL_NAMREPLY, nick, <<"=">>, ChanX>>, Alice \o <<" ">> \o nick),
     Wire(MyMask, <<PART, ChanX>>, None),
     Wire(AliceMask, <<JOIN>>, ChanX),
     Wire(AliceMask, <<PART, ChanX>>, None),
     Wire(AliceMask, <<QUIT>>, <<"q">>),
     Wire(AliceMask, <<NICK>>, Alicia),
     Wire(AliciaMask, <<QUIT>>, <<"q">>),
     Wire(AliceMask, <<PRIVMSG, ChanY>>, <<"h", "i">>),
     Wire(AliciaMask, <<NOTICE, nick>>, <<"h", "i">>)}

\* alice seen from another host
AliceElsewhere == Alice \o <<"!", "v", "@", "i">>

NextRoster ==
    \/ \E raw \in RosterLines : ProcessLine(raw, MaxRosterLines)
    \/ \E arg \in {Alice, AliceMask, AliceElsewhere} : UserGetUser(arg)
    \/ Suspend
    \/ DataArrives(MaxRosterLines)
    \/ ResumeRun

SpecRoster == InitRegistered /\ [][NextRoster]_vars

\* a message on #x, and the client's own join of #x with its end
HandlerLines ==
    {Wire(AliceMask, <<PRIVMSG, ChanX>>, <<"h", "i">>),
     Wire(MyMask, <<JOIN>>, ChanX),
     Wire(Server, <<RPL_ENDOFNAMES, nick, ChanX>>, <<"e">>)}

\* message handlers and join handlers of the program, some of which raise
NextHandlers ==
    \/ \E raw \in HandlerLines : ProcessLine(raw, MaxLines)
    \/ Suspend
    \/ DataArrives(MaxLines)
    \/ ResumeRun
    \/ RunTask
    \/ \E fn \in {"user", "faulty"} : UserOnMessageFn(fn, None, None, None, "None")
    \/ \E fn \in {"user", "faulty"} : UserOnJoinFn(fn, None)

SpecHandlers == InitRegistered /\ [][NextHandlers]_vars

\* a message and a notice on #x, and a message to the client itself
MessageLines ==
    {Wire(AliceMask, <<PRIVMSG, ChanX>>, <<"h", "i">>),
     Wire(AliceMask, <<NOTICE, ChanX>>, <<"h", "i">>),
     Wire(AliceMask, <<PRIVMSG, nick>>, <<"y", "o">>)}

\* the filters <<message, channel, sender>> the program registers with
MessageFilters ==
    {<<None, None, None>>,
     <<RegEx("g", <<"h">>), None, None>>,
     <<None, RegEx("c", <<"#">>), None>>,
     <<RegEx("g", <<"h">>), RegEx("c", <<"#">>), None>>,
     <<Unknown, None, None>>,
     <<RegEx("g", <<"h">>), Unknown, None>>,
     <<RegEx("g", <<"h">>), RegEx("c", <<"#">>), Unknown>>}

\* message handlers with filters: patterns with a named group, a notice flag,
\* and filters of a type on_message does not know
NextMessage ==
    \/ \E raw \in MessageLines : ProcessLine(raw, MaxLines)
    \/ Suspend
    \/ DataArrives(MaxLines)
    \/ ResumeRun
    \/ RunTask
    \/ \E f \in MessageFilters, notice \in {"None", "False"} :
            UserOnMessageFn("user", f[1], f[2], f[3], notice)

SpecMessage == InitRegistered /\ [][NextMessage]_vars

-------------------------------------------------------------------------------
(* A Module of the program: before client.add_module(module) it buffers the *)
(* registrations made on it and on the proxies its get_channel returns.     *)
(* module.made counts the calls the program made (history; it numbers the   *)
(* functions the program registers).                                        *)

\* a buffer that takes the new call at its front
BufferCallFront(buffer, c) == <<c>> \o buffer

\* Module._buffer_call, ChannelProxy._buffer_call
BufferCall(buffer, c) == Append(buffer, c)

\* a buffered call of the module: "lambda: getattr(self.client, method)(...)(fn)"
ClientCall(s, c) ==
    IF c.op = "on_join" THEN [s EXCEPT !.joinHandlers = Append(@, JoinHandler(None, c.h))]
    ELSE OnMessage(s, None, None, None, "None", c.h)

\* Channel.on_message()(h): Client.on_message with channel=self.name
ChannelOnMessage(s, name, h) == OnMessage(s, None, name, None, "None", h)

\* Channel.on_message(accept_query=accept_query)(h): with accept_query the
\* channel filter is not set and new_matcher is the matcher
ChannelOnMessageQuery(s, name, accept_query, h) ==
    IF accept_query
    THEN [s EXCEPT !.msgHandlers =
              Append(@, [MessageHandler(None, None, None, "None", h)
                             EXCEPT !.matcher = NewMatcher(name)])]
    ELSE ChannelOnMessage(s, name, h)

\* ChannelProxy._populate: the buffered calls of the proxy go to the channel
RECURSIVE ProxyPopulate(_, _, _)
ProxyPopulate(s, proxy, i) ==
    IF i > Len(proxy.buffered) \/ s.exc # NoExc THEN s
    ELSE ProxyPopulate(ChannelOnMessage(s, proxy.name, proxy.buffered[i].h), proxy, i + 1)

\* Module._populate: the buffered calls of the module go to the client, among
\* them "lambda: proxy._populate(self.client.get_channel(name))"
RECURSIVE Populate(_, _, _)
Populate(s, mod, i) ==
    LET Do(c) == IF c.op = "populate"
                 THEN ProxyPopulate(GetChannel(s, mod.proxies[c.proxy].name),
                                    mod.proxies[c.proxy], 1)
                 ELSE ClientCall(s, c)
    IN  IF i > Len(mod.buffered) \/ s.exc # NoExc THEN s
        ELSE Populate(Do(mod.buffered[i]), mod, i + 1)

\* the call of the program that this step made on the module or a proxy
ModuleCalled(s, op, arg, e) ==
    /\ Commit(s)
    /\ call' = [op |-> op, arg |-> arg, ret |-> 0, exc |-> e]
    /\ lastRaw' = None
    /\ UNCHANGED <<runState, connPc, exc, nLines, seenMotd, listing, departed>>

\* module.on_message()(fn) and module.on_join()(fn): Module.__getattr__; with
\* a client it evaluates "getattr(self.client, method)(*args, **kwargs)", and
\* no args and kwargs are defined there
ModuleOn(op) ==
    /\ UserCode
    /\ module.made < MaxModuleCalls
    /\ IF module.client
       THEN /\ ModuleCalled(Cur, op, None, "NameError")
            /\ module' = [module EXCEPT !.made = @ + 1]
       ELSE /\ ModuleCalled(Cur, op, None, NoExc)
            /\ module' = [module EXCEPT
                   !.buffered = BufferCall(@, [op |-> op, h |-> Fn("user", module.made + 1, None),
                                               proxy |-> 0]),
                   !.made = @ + 1]

\* module.get_channel(name): the channel of the client, or a new proxy whose
\* _populate is buffered
ModuleGetChannel(name) ==
    /\ UserCode
    /\ module.made < MaxModuleCalls
    /\ IF module.client
       THEN /\ ModuleCalled(GetChannel(Cur, name), "get_channel", name, NoExc)
            /\ module' = [module EXCEPT !.made = @ + 1]
       ELSE /\ ModuleCalled(Cur, "get_channel", name, NoExc)
            /\ module' = [module EXCEPT
                   !.proxies = Append(@, [name |-> name, channel |-> FALSE, buffered |-> <<>>]),
                   !.buffered = BufferCall(@, [op |-> "populate", h |-> Fn("populate", 0, None),
                                               proxy |-> Len(module.proxies) + 1]),
                   !.made = @ + 1]

\* proxy.on_message()(fn) on the p-th proxy: ChannelProxy.__getattr__
ProxyOnMessage(p) ==
    /\ UserCode
    /\ module.made < MaxModuleCalls
    /\ IF module.proxies[p].channel
       THEN /\ ModuleCalled(ChannelOnMessage(Cur, module.proxies[p].name,
                                             Fn("user", module.made + 1, None)),
                            "proxy.on_message", module.proxies[p].name, NoExc)
            /\ module' = [module EXCEPT !.made = @ + 1]
       ELSE /\ ModuleCalled(Cur, "proxy.on_message", module.proxies[p].name, NoExc)
            /\ module' = [module EXCEPT
                   !.proxies[p].buffered =
                       BufferCall(@, [op |-> "on_message", h |-> Fn("user", module.made + 1, None),
                                      proxy |-> p]),
                   !.made = @ + 1]

\* client.add_module(module)
AddModule ==
    /\ UserCode
    /\ ~module.client
    /\ ModuleCalled(Populate(Cur, module, 1), "add_module", None, Populate(Cur, module, 1).exc)
    /\ module' = [module EXCEPT
           !.client = TRUE,
           !.proxies = [p \in 1..Len(@) |-> [@[p] EXCEPT !.channel = TRUE]]]

NextModule ==
    \/ \E op \in {"on_message", "on_join"} : ModuleOn(op)
    \/ \E name \in {ChanX, ChanY} : ModuleGetChannel(name)
    \/ \E p \in 1..Len(module.proxies) : ProxyOnMessage(p)
    \/ AddModule

SpecModule == Init /\ [][NextModule]_vars

-------------------------------------------------------------------------------
(* The codec on its own: the program builds a line and parses it again.     *)

\* the sequences over S of length at most n
RECURSIVE SeqsUpTo(_, _)
SeqsUpTo(S, n) ==
    IF n = 0 THEN {<<>>}
    ELSE SeqsUpTo(S, n - 1) \cup {Append(q, x) : q \in SeqsUpTo(S, n - 1), x \in S}

\* prefixes, params (no space, no leading colon) and trailing parts
CodecPrefixes == {None, <<"p">>}
CodecParams == {<<"A">>, <<"b">>, <<"c", ":">>}
CodecTrailings == {None, <<>>, <<"t">>, <<"t", " ", "u">>, <<":", "t">>, <<" ", ":">>}

\* self._parsemsg(self._buildmsg(*params, prefix=prefix, rest=trailing))
Roundtrip(prefix, params, trailing) ==
    /\ call' = [op |-> "roundtrip", arg |-> <<prefix, params, trailing>>,
                ret |-> Parsemsg(Buildmsg(params, prefix, trailing)), exc |-> NoExc]
    /\ UNCHANGED <<handlers, msgHandlers, joinHandlers, connectedHandlers, users, objs,
                   chans, chanNames, nick, chanTypes, prefixMap, connected, futs, joining, runAwaits, msgFuts, ready,
                   runState, connPc, nJoins, calls, exc, lastRaw, sent, invoked, spawned,
                   nLines, seenMotd, listing, departed, module>>

NextCodec ==
    \E prefix \in CodecPrefixes, params \in SeqsUpTo(CodecParams, MaxParams),
       trailing \in CodecTrailings : Roundtrip(prefix, params, trailing)

SpecCodec == Init /\ [][NextCodec]_vars

-------------------------------------------------------------------------------
(* Lines no handler is registered for.                                      *)

\* an empty line, a line of one space, a line that is a prefix and nothing
\* else, and a numeric no handler is registered for
UnknownLines ==
    {<<"\r", "\n">>,
     <<" ", "\r", "\n">>,
     <<":", "s", "\r", "\n">>,
     Wire(Server, <<<<"9", "9", "9">>, nick>>, <<"x">>),
     Wire(AliceMask, <<<<"M", "O", "D", "E">>, ChanX, <<"+", "o">>, nick>>, None)}

NextUnknown ==
    \/ \E raw \in UnknownLines : ProcessLine(raw, MaxLines)
    \/ UserOnMessage(None, None, None, "None")
    \/ Suspend
    \/ DataArrives(MaxLines)
    \/ ResumeRun

SpecUnknown == InitRegistered /\ [][NextUnknown]_vars

-------------------------------------------------------------------------------
(* Messages from senders of every shape of prefix.                          *)

\* no prefix, a server, nick!user@host, nick!user and nick@host
SenderPrefixes ==
    {None, Server, AliceMask, Alice \o <<"!", "u">>, Alice \o <<"@", "h">>}

\* the message "hi" on #x from prefix p
SenderLine(p) == Wire(p, <<PRIVMSG, ChanX>>, <<"h", "i">>)

NextSender ==
    \/ \E p \in SenderPrefixes : ProcessLine(SenderLine(p), MaxLines)
    \/ Suspend
    \/ DataArrives(MaxLines)
    \/ ResumeRun
    \/ RunTask
    \/ UserOnMessage(None, None, None, "None")

SpecSender == InitRegistered /\ [][NextSender]_vars

\* the server's answer to a JOIN of #x, and the end of a list of #y
BlockingLines ==
    {Wire(MyMask, <<JOIN>>, ChanX),
     Wire(Server, <<RPL_NAMREPLY, nick, <<"=">>, ChanX>>, <<"@">> \o Alice \o <<" ">> \o nick),
     Wire(Server, <<RPL_ENDOFNAMES, nick, ChanX>>, <<"e">>),
     Wire(Server, <<RPL_ENDOFNAMES, nick, ChanY>>, <<"e">>)}

NextBlocking ==
    \/ \E raw \in BlockingLines : ProcessLine(raw, MaxJoinLines)
    \/ Suspend
    \/ DataArrives(MaxJoinLines)
    \/ ResumeRun
    \/ RunTask
    \/ JoinResume
    \/ \E c \in {ChanX, ChanY}, block \in BOOLEAN : UserJoin(c, block)
    \/ UserOnJoin(ChanX)

SpecBlocking == InitRegistered /\ [][NextBlocking]_vars

\* the tokens CHANTYPES=# and PREFIX=(v)+ of a 005
ChanTypesToken == <<"C", "H", "A", "N", "T", "Y", "P", "E", "S", "=", "#">>
PrefixToken == <<"P", "R", "E", "F", "I", "X", "=", "(", "v", ")", "+">>

\* the replies of the server around the end of the registration
MotdLines ==
    {Wire(Server, <<RPL_ENDOFMOTD, nick>>, <<"e">>),
     Wire(Server, <<ERR_NICKNAMEINUSE, <<"*">>, nick>>, <<"u">>),
     Wire(Server, <<RPL_ISUPPORT, nick, ChanTypesToken, PrefixToken>>, <<"a">>)}

NextMotd ==
    \/ StartRun
    \/ \E raw \in MotdLines : ProcessLine(raw, MaxLines)
    \/ Suspend
    \/ DataArrives(MaxLines)
    \/ ResumeRun
    \/ ConnectStart
    \/ ConnectResume
    \/ RunRemoveCallback

SpecMotd == Init /\ [][NextMotd]_vars

\* the entries the program added to the three registries
Registered == Len(handlers) - Len(BaseHandlers) + Len(msgHandlers) + Len(joinHandlers)

\* the program registers its function number id once more: with
\* on_command(*args), with on_message() or with on_join()
UserRegister(kind, args, id) ==
    LET On(h) ==
            CASE kind = "command" -> OnCommand(Cur, args, None, h)
              [] kind = "message" -> OnMessage(Cur, None, None, None, "None", h)
              [] kind = "join" -> [Cur EXCEPT !.joinHandlers = Append(@, JoinHandler(None, h))]
    IN  /\ Idle
        /\ Registered < MaxRegistered
        /\ Commit(On(Fn("user", id, None)))
        /\ lastRaw' = None
        /\ call' = NoCall
        /\ UNCHANGED <<runState, connPc, exc, nLines, seenMotd, listing, departed, module>>

\* the program calls remove_command_handler(h), remove_message_handler(h) or
\* remove_join_handler(h) with its function number id
UserRemove(kind, id) ==
    LET Off(h) ==
            CASE kind = "command" -> RemoveCommandHandler(Cur, h)
              [] kind = "message" -> RemoveMessageHandler(Cur, h)
              [] kind = "join" -> RemoveJoinHandler(Cur, h)
        Removed(h) ==
            /\ Commit(Off(h))
            /\ call' = [op |-> "remove", arg |-> [kind |-> kind, h |-> h], ret |-> 0,
                        exc |-> NoExc]
    IN  /\ Idle
        /\ Removed(Fn("user", id, None))
        /\ lastRaw' = None
        /\ UNCHANGED <<runState, connPc, exc, nLines, seenMotd, listing, departed, module>>

NextRemove ==
    \/ \E kind \in {"command", "message", "join"}, args \in {<<PRIVMSG>>, <<NOTICE>>},
          id \in {1, 2} : UserRegister(kind, args, id)
    \/ \E kind \in {"command", "message", "join"}, id \in {1, 2} : UserRemove(kind, id)

SpecRemove == InitRegistered /\ [][NextRemove]_vars

\* a notice, a message, and the server's answer to a JOIN of #x
BlockedLines ==
    {Wire(AliceMask, <<NOTICE, nick>>, <<"h", "i">>),
     Wire(AliceMask, <<PRIVMSG, ChanX>>, <<"h", "i">>),
     Wire(MyMask, <<JOIN>>, ChanX),
     Wire(Server, <<RPL_ENDOFNAMES, nick, ChanX>>, <<"e">>)}

\* the functions the program registers for NOTICE: one awaits a future of
\* await_command or await_message, one a blocking join of #x
AwaitingFns ==
    {Fn("awaits", f, None) : f \in (DOMAIN calls \cup msgFuts) \ {0}}
    \cup {Fn("joins", 0, ChanX)}

NextBlocked ==
    \/ \E raw \in BlockedLines : ProcessLine(raw, MaxLines)
    \/ Suspend
    \/ DataArrives(MaxLines)
    \/ ResumeRun
    \/ RunTask
    \/ RunRemoveCallback
    \/ ResumeBlocked
    \/ UserAwaitCommand(<<PRIVMSG>>)
    \/ UserAwaitMessage
    \/ \E f \in DOMAIN futs : UserCancel(f)
    \/ UserOnJoin(ChanX)
    \/ \E h \in AwaitingFns : UserOnCommandAwaiting(<<NOTICE>>, h)

SpecBlocked == InitRegistered /\ [][NextBlocked]_vars

\* messages of the server itself and of alice
OriginLines ==
    {Wire(Server, <<PRIVMSG, ChanX>>, <<"h", "i">>),
     Wire(Server, <<NOTICE, nick>>, <<"h", "i">>),
     Wire(AliceMask, <<PRIVMSG, ChanX>>, <<"h", "i">>)}

\* the sender filters the program registers with: none, a string, a pattern
SenderFilters == {None, Alice, RegEx("n", <<"a">>)}

NextOrigin ==
    \/ \E raw \in OriginLines : ProcessLine(raw, MaxLines)
    \/ Suspend
    \/ DataArrives(MaxLines)
    \/ ResumeRun
    \/ RunTask
    \/ \E sender \in SenderFilters : UserOnMessage(None, None, sender, "None")

SpecOrigin == InitRegistered /\ [][NextOrigin]_vars

\* client.get_channel(name).on_message(accept_query=accept_query)(fn)
UserChannelOnMessage(name, accept_query) ==
    LET Called(s) ==
            /\ Commit(s)
            /\ call' = [op |-> "channel.on_message",
                        arg |-> <<name, IF accept_query THEN "True" ELSE "False">>,
                        ret |-> 0, exc |-> s.exc]
    IN  /\ UserCode
        /\ Registrations < MaxUserHandlers
        /\ Called(ChannelOnMessageQuery(GetChannel(Cur, name), name, accept_query,
                                        Fn("user", Len(msgHandlers) + 1, None)))
        /\ lastRaw' = None
        /\ UNCHANGED <<runState, connPc, exc, nLines, seenMotd, listing, departed, module>>

\* messages of alice to two channels and to the client, of the server to a
\* channel and to the client
QueryLines ==
    {Wire(AliceMask, <<PRIVMSG, ChanX>>, <<"h", "i">>),
     Wire(AliceMask, <<PRIVMSG, ChanY>>, <<"h", "i">>),
     Wire(AliceMask, <<PRIVMSG, nick>>, <<"h", "i">>),
     Wire(Server, <<NOTICE, ChanY>>, <<"h", "i">>),
     Wire(Server, <<NOTICE, nick>>, <<"h", "i">>)}

NextChannel ==
    \/ \E raw \in QueryLines : ProcessLine(raw, MaxLines)
    \/ Suspend
    \/ DataArrives(MaxLines)
    \/ ResumeRun
    \/ RunTask
    \/ \E accept_query \in BOOLEAN : UserChannelOnMessage(ChanX, accept_query)

SpecChannel == InitRegistered /\ [][NextChannel]_vars

------------------------------------------------------------------------------
(* Registration and keepalive.                                              *)

StartedMessageHandler == \E i \in 1..Len(spawned) : spawned[i].kind = "message"

\* C1: the client becomes connected at most once (_connected never goes back
\* to false, and it is true only when _connect has run to its end), only after
\* a 376 line was processed, and a message handler is started only while the
\* client is connected: a PRIVMSG or NOTICE processed before starts none.
C1_ConnectedOnceBeforeMessages ==
    /\ [](connected => (seenMotd /\ connPc = "done"))
    /\ [](StartedMessageHandler => connected)
    /\ [][connected => connected']_vars

\* a message handler was started for a PRIVMSG processed after the transition
C1_Witness ==
    /\ connected
    /\ lastRaw # None /\ Command(lastRaw) = PRIVMSG
    /\ StartedMessageHandler

\* the trailing payload of a line: what follows its first " :"
Payload(raw) ==
    LET Of(p) == IF p.rest = None THEN <<>> ELSE p.rest
    IN  Of(Line(raw))

\* the PONG that answers a PING with payload p
PongFor(p) == IF p = <<>> THEN PONG ELSE PONG \o <<" ", ":">> \o p

\* C2: a line whose command is PING is answered with exactly one PONG that
\* carries the same trailing payload, and no command handler and no message
\* handler is invoked for it, before and after registration.
C2_PingAnswered ==
    (lastRaw # None /\ Command(lastRaw) = PING) =>
        /\ sent = <<PongFor(Payload(lastRaw))>>
        /\ invoked = <<>>
        /\ spawned = <<>>

\* a PING with a payload was processed while a handler for PING is registered
C2_Witness ==
    /\ lastRaw # None /\ Command(lastRaw) = PING /\ Payload(lastRaw) # <<>>
    /\ \E i \in 1..Len(handlers) : handlers[i].args = <<PING>>
    /\ sent # <<>>

------------------------------------------------------------------------------
(* Dispatch and the join handshake.                                         *)

\* the handlers of a registry that match msg, in registration order
MatchingHandlers(list, msg) == SelectSeq(list, LAMBDA ch : Matches(ch, msg))

\* C3: when a line that is not a PING is processed (and no handler raises),
\* every command handler that was in the registry when the line was dispatched
\* and whose pattern matches it is invoked exactly once, in registration
\* order, also when an invoked handler removes handlers from the registry.
C3_EveryMatchingHandlerOnce ==
    [][(/\ lastRaw' # None
        /\ Line(lastRaw').kind = "msg"
        /\ Command(lastRaw') \notin {None, PING}
        /\ exc' = NoExc)
       => invoked' = MatchingHandlers(handlers, Line(lastRaw'))]_vars

\* the handlers _on_join installs for one join
Temporary(ch) == ch.h.fn \in {"gather_nicks", "join_finished"}

\* C4: once the 366 that ends the handshake of a joined channel is processed,
\* the registry holds no name-gathering handler and no end-marker handler of
\* that channel, and every other handler that was registered (those of the
\* constructor and the user's) is still there.
C4_TemporaryHandlersRemoved ==
    [][(listing.phase = "open" /\ listing'.phase = "done" /\ exc' = NoExc)
       => /\ \A j \in 1..Len(handlers') :
                ~(Temporary(handlers'[j]) /\ handlers'[j].h.chan = listing.chan)
          /\ \A j \in 1..Len(handlers) :
                ~Temporary(handlers[j]) => handlers[j] \in Range(handlers')]_vars

\* the channel of the handshake is known and the 366 that ended it is the line
\* just processed
HandshakeJustDone ==
    /\ listing.phase = "done"
    /\ listing.ends = 1
    /\ lastRaw # None
    /\ Command(lastRaw) = RPL_ENDOFNAMES
    /\ exc = NoExc

\* C5: after the client's own JOIN of a channel, one or more 353 lines for it
\* and the 366, the members of the channel are exactly the users the 353 lines
\* named, one leading character that is a key of the PREFIX map taken off.
C5_MembersAreTheNamed ==
    (HandshakeJustDone /\ listing.orderly /\ listing.clean /\ listing.names # {}) =>
        /\ listing.chan \in DOMAIN chans
        /\ MemberNames(Cur, listing.chan) = listing.names

\* the tasks join_finished starts for channel c: one per join handler
\* registered for c or for every channel, in registration order
JoinTasks(c) ==
    LET For(list) == [i \in 1..Len(list) |-> [h |-> list[i].h, kind |-> "join", arg |-> c]]
    IN  For(SelectSeq(joinHandlers,
                      LAMBDA jh : ~Truthy(jh.channel) \/ jh.channel = c))

\* the line of the step is a 366 for the channel of the handshake
EndOfNamesStep ==
    /\ lastRaw' # None
    /\ Command(lastRaw') = RPL_ENDOFNAMES
    /\ Len(Line(lastRaw').args) = 3
    /\ Line(lastRaw').args[3] = listing.chan
    /\ exc' = NoExc

HandshakeAgain ==
    /\ listing.phase = "done"
    /\ listing.ends = 2
    /\ lastRaw # None
    /\ Command(lastRaw) = RPL_ENDOFNAMES
    /\ exc = NoExc

------------------------------------------------------------------------------
(* Await helpers.                                                           *)

\* C7: the handler of an await helper captures one event: it is invoked at
\* most once, whatever lines follow the first match and however the
\* done-callback is scheduled, and the loop does not end with the error of a
\* second resolution.
C7_AwaitCapturesOnce ==
    /\ \A f \in DOMAIN calls : calls[f] <= 1
    /\ exc # "InvalidStateError"

\* C8: once the future of await_command is cancelled before a match, its
\* handler is not invoked by a matching line processed later, the loop does not
\* end with the error of a resolution of the cancelled future, and the handler
\* is not in the registry as soon as the done-callback of the cancellation ran.
C8_CancelledNeverFires ==
    \A f \in DOMAIN futs \ {0} :
        futs[f] = "cancelled" =>
            /\ calls[f] = 0
            /\ exc # "InvalidStateError"
            /\ \/ \A i \in 1..Len(handlers) : handlers[i].h # AwaitFn(f)
               \/ \E i \in 1..Len(ready) : ready[i] = [op |-> "remove_command_handler", h |-> AwaitFn(f)]

------------------------------------------------------------------------------
(* The roster.                                                              *)

\* the roster after the step, as the record the set operations read
After == [chans |-> chans', objs |-> objs']

\* C9: alice is the one member of #x and the line that renames alice to alicia
\* is processed: #x.users holds one entity, a User named alicia is found in
\* it, a User named alice is not.
C9_RenamedMemberFound ==
    [][(/\ ChanX \in DOMAIN chans
        /\ Len(chans[ChanX]) = 1
        /\ ChannelContains(Cur, ChanX, Alice)
        /\ lastRaw' = Wire(AliceMask, <<NICK>>, Alicia)
        /\ exc' = NoExc)
       => /\ Len(chans'[ChanX]) = 1
          /\ ChannelContains(After, ChanX, Alicia)
          /\ ~ChannelContains(After, ChanX, Alice)]_vars

\* C10: a user is a member of a channel only if the server reported, since the
\* client's last own JOIN of the channel, no PART of that user from it and no
\* QUIT of that user after the user was last reported in it, and no PART of
\* the client itself: after the client's own PART no other user is a member
\* (stated of the runs in which no handler raised).
C10_MembersHaveNotLeft ==
    exc = NoExc =>
        \A c \in DOMAIN chans : \A n \in MemberNames(Cur, c) :
            /\ <<c, n>> \notin departed.gone
            /\ c \in departed.left => n = nick

\* the entities held in Channel.users of channel c of the roster r
Held(r, c) == {r[c][i].u : i \in 1..Len(r[c])}

\* C11: a QUIT line of a user is processed (no handler raised): the entity the
\* user index held under that nick is afterwards in the member set of no
\* channel, no member of any channel carries the nick, and the nick is no key
\* of the user index; whatever lines came before, a rename included.
C11_QuitRemovesEverywhere ==
    [][\A p \in {AliceMask, AliciaMask} :
          (/\ lastRaw' = Wire(p, <<QUIT>>, <<"q">>)
           /\ exc' = NoExc)
          => /\ SenderNick(p) \notin DOMAIN users'
             /\ \A c \in DOMAIN chans' :
                    /\ SenderNick(p) \notin MemberNames(After, c)
                    /\ SenderNick(p) \in DOMAIN users => users[SenderNick(p)] \notin Held(chans', c)]_vars

\* every key of the user index maps to a User of that name, every key of the
\* channel index to a Channel of that name
IndexConsistent(us, os, cs, ns) ==
    /\ \A k \in DOMAIN us : os[us[k]].name = k
    /\ DOMAIN ns = DOMAIN cs
    /\ \A c \in DOMAIN ns : ns[c] = c

\* C12: whatever JOIN, PART, QUIT, NICK, PRIVMSG and NOTICE lines came in,
\* every key of the user index maps to a User whose name is the key and every
\* key of the channel index to a Channel whose name is the key; the line that
\* renames alice to alicia moves the entry from the key alice to the key
\* alicia in that one step.
C12_IndicesConsistent ==
    /\ [](IndexConsistent(users, objs, chans, chanNames))
    /\ [][(/\ lastRaw' = Wire(AliceMask, <<NICK>>, Alicia)
           /\ exc' = NoExc
           /\ Alice \in DOMAIN users)
          => /\ Alice \notin DOMAIN users'
             /\ Alicia \in DOMAIN users'
             /\ users'[Alicia] = users[Alice]
             /\ objs'[users'[Alicia]].name = Alicia]_vars

\* alice, known to the index and a member of #x, was renamed to alicia, and
\* the channel index holds a channel
C12_Witness ==
    /\ lastRaw = Wire(AliceMask, <<NICK>>, Alicia)
    /\ exc = NoExc
    /\ Alicia \in DOMAIN users
    /\ ChanX \in DOMAIN chans
    /\ users[Alicia] \in Held(chans, ChanX)

\* the hostmask the second part of a prefix nick!user@host carries
MaskOf(prefix) == Partition(prefix, <<"!">>)[3]

\* C13: get_user is get-or-create by nick. get_user("alice!u@h") in a state
\* that knows no hostmask of alice returns the entity the index holds under
\* alice, with hostmask "u@h"; get_user("alice") right after it returns the
\* same entity with that hostmask; and no call of get_user, with or without a
\* hostmask, changes a hostmask that is known.
C13_GetUserGetOrCreate ==
    [][call'.op = "get_user"
       => /\ call'.exc = NoExc
          /\ users'[Alice] = call'.ret
          /\ Alice \in DOMAIN users => call'.ret = users[Alice]
          /\ (/\ call'.arg = AliceMask
              /\ Alice \in DOMAIN users => ~Truthy(objs[users[Alice]].hostmask))
             => objs'[call'.ret].hostmask = MaskOf(AliceMask)
          /\ (call.op = "get_user" /\ call.arg = AliceMask /\ call'.arg = Alice)
             => /\ call'.ret = call.ret
                /\ objs'[call'.ret].hostmask = objs[call.ret].hostmask
          /\ (Alice \in DOMAIN users /\ Truthy(objs[users[Alice]].hostmask))
             => objs'[call'.ret].hostmask = objs[users[Alice]].hostmask]_vars

\* get_user("alice") was called right after get_user("alice!u@h") and returned
\* the entity with hostmask "u@h"
C13_Witness ==
    /\ call.op = "get_user"
    /\ call.arg = Alice
    /\ objs[call.ret].hostmask = MaskOf(AliceMask)
    /\ users[Alice] = call.ret

-------------------------------------------------------------------------------
(* The registration.                                                        *)

\* C14: a JOIN or PRIVMSG line is processed while the client is not yet
\* connected: the user index, the channel index and the member sets are as
\* before the line, and no message handler is started.
C14_RosterUntouchedBeforeConnected ==
    [][(/\ ~connected
        /\ lastRaw' \in {Wire(AliceMask, <<JOIN>>, ChanX),
                         Wire(AliceMask, <<PRIVMSG, ChanX>>, <<"h", "i">>)})
       => /\ users' = users
          /\ chans' = chans
          /\ spawned' = <<>>]_vars

\* C16: the step in which _connect goes on after the end of the MOTD sets
\* connected and invokes every registered on-connected callback once, in
\* registration order, also after one of them raised; no other step invokes
\* one; the loop of run is as it was and goes on.
C16_ConnectedCallbacksInOrder ==
    [][IF connPc # "done" /\ connPc' = "done"
       THEN /\ connected'
            /\ invoked' = connectedHandlers
            /\ exc' = NoExc
            /\ runState' = runState
       ELSE \A i \in 1..Len(invoked') :
                \A j \in 1..Len(connectedHandlers) : invoked'[i] # connectedHandlers[j]]_vars

\* two callbacks were registered, the first one raises; after the end of the
\* MOTD both were invoked, and the loop processed alice's PRIVMSG after that
C16_Witness ==
    /\ connected
    /\ Len(connectedHandlers) = 2
    /\ connectedHandlers[1].fn = "faulty"
    /\ lastRaw = Wire(AliceMask, <<PRIVMSG, ChanX>>, <<"h", "i">>)
    /\ runState = "running"
    /\ exc = NoExc

-------------------------------------------------------------------------------
(* Handlers of the program that raise.                                      *)

\* the handlers of the tasks a step started, in the order of their start
Started(sp, kind) ==
    LET Of(idx) == [i \in 1..Len(idx) |-> sp[idx[i]].h]
        RECURSIVE Pick(_, _)
        Pick(i, acc) == IF i > Len(sp) THEN acc
                        ELSE Pick(i + 1, IF sp[i].kind = kind THEN Append(acc, i) ELSE acc)
    IN  Of(Pick(1, <<>>))

\* C15: the task of a message handler or join handler runs and its body
\* raises: the loop of run is in the state it was in, no exception reaches it,
\* the tasks started with it or after it stay queued in their order, and the
\* registries are as they were; and a PRIVMSG processed at any time (after a
\* handler raised as well) starts every message handler, the 366 that ends the
\* handshake of one own JOIN every join handler.
C15_RaisingHandlerIsolated ==
    [][/\ (call'.op = "task" /\ call'.exc # NoExc)
          => /\ exc' = exc
             /\ runState' = runState
             /\ ready' = Tail(ready)
             /\ msgHandlers' = msgHandlers
             /\ joinHandlers' = joinHandlers
             /\ handlers' = handlers
       /\ (lastRaw' = Wire(AliceMask, <<PRIVMSG, ChanX>>, <<"h", "i">>) /\ exc' = NoExc)
          => Started(spawned', "message") = [i \in 1..Len(msgHandlers) |-> msgHandlers[i].h]
       /\ (EndOfNamesStep /\ listing.phase = "open" /\ listing.joins = 1 /\ listing.me = nick)
          => Started(spawned', "join") = [i \in 1..Len(joinHandlers) |-> joinHandlers[i].h]]_vars

\* a raising message handler and a returning one were started for one PRIVMSG;
\* the raising one ran and raised, the other one then ran
C15_Witness ==
    /\ Len(msgHandlers) = 2
    /\ msgHandlers[1].h.fn = "faulty"
    /\ call.op = "task"
    /\ call.arg = msgHandlers[2].h
    /\ call.exc = NoExc
    /\ exc = NoExc

-------------------------------------------------------------------------------
(* The filters of message handlers.                                         *)

\* the predicates handler mh was configured with hold of the parsed line p:
\* the notice flag, the pattern on the text, the pattern on the channel
Passes(mh, p) ==
    /\ mh.notice = "None" \/ (mh.notice = "True") = (p.args[1] = NOTICE)
    /\ mh.message = None \/ Contains(p.rest, <<"h">>)
    /\ mh.channel = None \/ (p.args[2][1] = "#" /\ Contains(p.args[2], <<"#">>))

\* the captures of the patterns of mh on the text "hi" and the channel "#x"
Captures(mh) ==
    (IF mh.message = None THEN NoKwargs ELSE ("g" :> <<"i">>))
    @@ (IF mh.channel = None THEN NoKwargs ELSE ("c" :> <<"x">>))

\* C19: the matcher of a message handler is the conjunction of its predicates:
\* a PRIVMSG or NOTICE starts exactly the handlers all of whose predicates hold
\* of it (a handler with notice=False and a pattern on the text is not started
\* for a NOTICE whose text matches), and every handler it starts gets the named
\* captures of all its patterns, merged, as keyword arguments.
C19_MatcherIsConjunction ==
    [][(lastRaw' \in MessageLines /\ exc' = NoExc)
       => /\ Started(spawned', "message")
             = [i \in 1..Len(SelectSeq(msgHandlers, LAMBDA mh : Passes(mh, Line(lastRaw')))) |->
                   SelectSeq(msgHandlers, LAMBDA mh : Passes(mh, Line(lastRaw')))[i].h]
          /\ \A i \in 1..Len(spawned') : \A j \in 1..Len(msgHandlers) :
                 spawned'[i].h = msgHandlers[j].h
                 => spawned'[i].arg.kwargs = Captures(msgHandlers[j])]_vars

\* a handler with notice=False and patterns on text and channel is registered,
\* alice's PRIVMSG "hi" on #x was processed and started it with both captures
C19_Witness ==
    /\ lastRaw = Wire(AliceMask, <<PRIVMSG, ChanX>>, <<"h", "i">>)
    /\ \E j \in 1..Len(msgHandlers) : \E i \in 1..Len(spawned) :
           /\ msgHandlers[j].notice = "False"
           /\ msgHandlers[j].message # None
           /\ msgHandlers[j].channel # None
           /\ spawned[i].h = msgHandlers[j].h
           /\ spawned[i].arg.kwargs = ("g" :> <<"i">>) @@ ("c" :> <<"x">>)

\* C20: on_message called with a message, sender or channel filter of a type
\* it does not know raises ValueError in that call, and the registry of
\* message handlers is as it was.
C20_UnsupportedFilterRejected ==
    [][(call'.op = "on_message" /\ \E k \in 1..3 : call'.arg[k] = Unknown)
       => /\ call'.exc = "ValueError"
          /\ msgHandlers' = msgHandlers]_vars

\* on_message was called with a pattern for the text and an int for the
\* channel while one handler was registered: ValueError
C20_Witness ==
    /\ call.op = "on_message"
    /\ call.arg[1] = RegEx("g", <<"h">>)
    /\ call.arg[2] = Unknown
    /\ call.exc = "ValueError"
    /\ Len(msgHandlers) = 1

-------------------------------------------------------------------------------
(* Modules.                                                                 *)

\* the handlers of the calls with operation op in a buffer, in their order
Deferred(buffer, op) ==
    LET Sel(cs) == [i \in 1..Len(cs) |-> cs[i].h]
    IN  Sel(SelectSeq(buffer, LAMBDA c : c.op = op))

\* the handlers of a registry from position n + 1 on that satisfy Of
Added(registry, n, Of(_)) ==
    LET Sel(hs) == [i \in 1..Len(hs) |-> hs[i].h]
    IN  Sel(SelectSeq(SubSeq(registry, n + 1, Len(registry)), Of))

\* the functions registered are those of the buffered calls, each once, in the
\* order in which the program made the calls (the program's functions are
\* numbered by module.made as the calls are made)
InCallOrder(registered, deferred) ==
    /\ Len(registered) = Len(deferred)
    /\ {registered[i] : i \in 1..Len(registered)} = {deferred[i] : i \in 1..Len(deferred)}
    /\ \A i, j \in 1..Len(registered) : i < j => registered[i].id < registered[j].id

\* the number of calls a module and its proxies have buffered
Buffered(mod) ==
    LET RECURSIVE Sum(_)
        Sum(p) == IF p = 0 THEN 0 ELSE Len(mod.proxies[p].buffered) + Sum(p - 1)
    IN  Len(SelectSeq(mod.buffered, LAMBDA c : c.op # "populate")) + Sum(Len(mod.proxies))

\* C17: before the module is attached, a registration made on the module or
\* on one of its channel proxies adds nothing to a registry of the client and
\* adds one call to a buffer; the step that attaches the module executes every
\* buffered call once: per proxy, the message handlers of its channel are the
\* functions of its buffered calls in the order the calls were made, and so
\* are, for the module itself, the message handlers without a channel and the
\* join handlers; nothing else is registered.
C17_BufferedThenReplayedInOrder ==
    [][/\ (~module.client /\ call'.op \in {"on_message", "on_join", "proxy.on_message"})
          => /\ msgHandlers' = msgHandlers
             /\ joinHandlers' = joinHandlers
             /\ handlers' = handlers
             /\ Buffered(module') = Buffered(module) + 1
             /\ call'.exc = NoExc
       /\ call'.op = "add_module"
          => /\ call'.exc = NoExc
             /\ handlers' = handlers
             /\ Len(msgHandlers') + Len(joinHandlers')
                = Len(msgHandlers) + Len(joinHandlers) + Buffered(module)
             /\ InCallOrder(Added(joinHandlers', Len(joinHandlers), LAMBDA jh : jh.channel = None),
                            Deferred(module.buffered, "on_join"))
             /\ InCallOrder(Added(msgHandlers', Len(msgHandlers), LAMBDA mh : mh.channel = None),
                            Deferred(module.buffered, "on_message"))
             /\ \A p \in 1..Len(module.proxies) :
                    InCallOrder(Added(msgHandlers', Len(msgHandlers),
                                      LAMBDA mh : /\ mh.channel = module.proxies[p].name
                                                  /\ \E i \in 1..Len(module.proxies[p].buffered) :
                                                         module.proxies[p].buffered[i].h = mh.h),
                                Deferred(module.proxies[p].buffered, "on_message"))]_vars

\* the module was attached with two calls buffered on a proxy for #x and one
\* on the module: the registry holds the proxy's two in their order
C17_Witness ==
    /\ call.op = "add_module"
    /\ module.proxies # <<>>
    /\ Len(module.proxies[1].buffered) = 2
    /\ Deferred(module.buffered, "on_message") # <<>>
    /\ Len(msgHandlers) = 3
    /\ \E i, j \in 1..3 :
           /\ i < j
           /\ msgHandlers[i].h = module.proxies[1].buffered[1].h
           /\ msgHandlers[j].h = module.proxies[1].buffered[2].h

\* C18: after the module is attached, a registration made on the module
\* (on_message, on_join) raises nothing and adds its handler to the registry
\* of the client in that step.
C18_AttachedModuleForwards ==
    [][(module.client /\ call'.op \in {"on_message", "on_join"})
       => /\ call'.exc = NoExc
          /\ Len(msgHandlers') + Len(joinHandlers') = Len(msgHandlers) + Len(joinHandlers) + 1]_vars

-------------------------------------------------------------------------------
(* The codec.                                                               *)

\* C21: for every prefix or none, every sequence of params (the empty one
\* too) and every trailing part or none (the empty one too), parsing the line
\* built from them gives back that prefix, those params and that trailing part.
C21_ParseInvertsBuild ==
    [][call'.op = "roundtrip"
       => call'.ret = IrcMessage(call'.arg[1], call'.arg[2], call'.arg[3])]_vars

-------------------------------------------------------------------------------
(* The loop of run.                                                         *)

\* C22: a line that matches no command handler and is neither PING nor
\* PRIVMSG nor NOTICE (an empty line, a line of whitespace, a line that is
\* only a prefix, an unknown numeric) invokes and starts no handler, sends
\* nothing, changes no state of the client and leaves the loop running.
C22_UnknownLinesIgnored ==
    [][lastRaw' \in UnknownLines
       => /\ invoked' = <<>> /\ spawned' = <<>> /\ sent' = <<>>
          /\ exc' = NoExc
          /\ runState' = "running"
          /\ <<handlers', msgHandlers', joinHandlers', users', objs', chans', nick',
               chanTypes', prefixMap', connected', futs', ready'>>
             = <<handlers, msgHandlers, joinHandlers, users, objs, chans, nick,
                 chanTypes, prefixMap, connected, futs, ready>>]_vars

\* C23: a PRIVMSG is processed while the client is connected and a message
\* handler is registered: the Message the handler is started with has sender
\* None exactly when the prefix of the line has neither a "!" nor a "@"; with
\* one of the two the sender is a User.
C23_SenderNoneIffServer ==
    [][\A p \in SenderPrefixes \ {None} :
          (lastRaw' = SenderLine(p) /\ connected /\ msgHandlers # <<>>)
          => /\ spawned' # <<>>
             /\ \A i \in 1..Len(spawned') :
                    (spawned'[i].arg.message.sender = 0)
                    <=> (~Contains(p, <<"!">>) /\ ~Contains(p, <<"@">>))]_vars

------------------------------------------------------------------------------
(* The blocking join.                                                       *)

\* the waiter of future f is in the registry of join handlers
WaiterIn(list, f) == \E i \in 1..Len(list) : list[i].h.fn = "waiter" /\ list[i].h.id = f

\* the step processed a 366 for channel c and no handler raised
EndOfNamesOf(c) ==
    /\ lastRaw' # None
    /\ Command(lastRaw') = RPL_ENDOFNAMES
    /\ Len(Line(lastRaw').args) = 3
    /\ Line(lastRaw').args[3] = c

\* C24: join(channel, block=True) registers its waiter and sends JOIN; its
\* waiter is started only by a step that processes a 366 for the channel, its
\* future is resolved only by the step that runs its waiter, and the join
\* returns only with the future resolved: then the waiter is no longer in the
\* registry of join handlers, and the channel returned is in the index with
\* the names the server listed as its members.
C24_BlockingJoinCompletesAfterEndOfNames ==
    [][/\ (call'.op = "join" /\ call'.ret # 0)
          => /\ sent' = <<Buildmsg(<<JOIN, call'.arg>>, None, None)>>
             /\ futs'[call'.ret] = "pending"
             /\ WaiterIn(joinHandlers', call'.ret)
       /\ \A i \in 1..Len(spawned') :
              spawned'[i].h.fn = "waiter" => EndOfNamesOf(spawned'[i].h.chan)
       /\ \A f \in DOMAIN joining :
              (futs[f] = "pending" /\ futs'[f] # "pending")
              => /\ futs'[f] = "done"
                 /\ call'.op = "task"
                 /\ call'.arg = WaiterFn(f, joining[f])
       /\ call'.op = "joined"
          => /\ futs[call'.ret] = "done"
             /\ ~WaiterIn(joinHandlers', call'.ret)
             /\ call'.arg = joining[call'.ret]
             /\ call'.arg \in DOMAIN chans'
             /\ (listing.chan = call'.arg /\ listing.phase = "done")
                   => listing.names \subseteq MemberNames(Cur, call'.arg)]_vars

\* the blocking join of #x returned after the server listed alice and the
\* client, with no join handler left in the registry
C24_Witness ==
    /\ call.op = "joined" /\ call.arg = ChanX
    /\ joinHandlers = <<>>
    /\ listing.phase = "done" /\ listing.chan = ChanX
    /\ MemberNames(Cur, ChanX) = {Alice, nick}

------------------------------------------------------------------------------
(* The loop and its handlers.                                               *)

\* the first handler of the registry that matches msg, 0 when none does
FirstMatch(list, msg) == First({i \in 1..Len(list) : Matches(list[i], msg)})

\* the handlers called for msg were awaited: each matches msg, the first one
\* called is the first match of the registry, and what a handler does is done
\* when the step ends (the future of an await helper is no longer pending, the
\* nick has its "_" and NICK is sent)
AwaitedInline(msg) ==
    /\ \A i \in 1..Len(invoked') : Matches(invoked'[i], msg)
    /\ FirstMatch(handlers, msg) # 0
          => /\ invoked' # <<>>
             /\ invoked'[1] = handlers[FirstMatch(handlers, msg)]
    /\ \A i \in 1..Len(invoked') :
          /\ invoked'[i].h.fn = "await" => futs'[invoked'[i].h.id] # "pending"
          /\ invoked'[i].h.fn = "nick_in_use"
                => /\ nick' = nick \o <<"_">>
                   /\ sent' = <<Buildmsg(<<NICK, nick'>>, None, None)>>

\* C25: command handlers are called only in the step that processes their
\* line and are never started as background tasks, so the calls for a line
\* are over when the step ends, before the loop reads the next line.
C25_CommandHandlersCompleteBeforeNextLine ==
    [][/\ lastRaw' = None => invoked' = <<>>
       /\ \A i \in 1..Len(spawned') : spawned'[i].kind # "command"
       /\ (lastRaw' # None /\ Command(lastRaw') \notin {None, PING})
             => AwaitedInline(Line(lastRaw'))]_vars

\* a PRIVMSG was processed and the handlers of two await helpers were called
\* for it, both futures resolved
C25_Witness ==
    /\ lastRaw # None /\ Command(lastRaw) = PRIVMSG
    /\ Len(invoked) = 2
    /\ \A f \in {1, 2} : f \in DOMAIN futs /\ futs[f] = "done"
    /\ exc = NoExc

\* the tasks of the message handlers in list, in the order of the list
TasksOf(list) == [i \in 1..Len(list) |-> [op |-> "task", h |-> list[i].h]]

\* C26: a PRIVMSG or NOTICE is processed while the client is connected and
\* every registered message handler matches: one task per handler is started,
\* in registration order, behind the tasks that have not run yet, whose
\* number does not matter; the loop does not wait for any of them and is
\* still running when the step ends.
C26_LoopDoesNotWaitForMessageHandlers ==
    [][(lastRaw' # None /\ Command(lastRaw') \in {PRIVMSG, NOTICE} /\ connected)
       => /\ Len(spawned') = Len(msgHandlers)
          /\ \A i \in 1..Len(spawned') :
                 spawned'[i].kind = "message" /\ spawned'[i].h = msgHandlers[i].h
          /\ ready' = ready \o TasksOf(msgHandlers)
          /\ invoked' = <<>>
          /\ exc' = NoExc /\ runState' = "running"]_vars

\* a second PRIVMSG was processed and started both handlers, a returning one
\* and a raising one, while the two tasks of the first line had not run
C26_Witness ==
    /\ lastRaw # None /\ Command(lastRaw) = PRIVMSG
    /\ Len(spawned) = 2 /\ spawned[1].h.fn = "user" /\ spawned[2].h.fn = "faulty"
    /\ Len(ready) = 4
    /\ runState = "running"

------------------------------------------------------------------------------
(* The temporary handlers of the registration.                              *)

\* the 376 that _connect awaits was processed: its future is resolved
EndOfMotdProcessed == 0 \in DOMAIN futs /\ futs[0] = "done"

\* C27: once the 376 that the registration awaits has been processed, a 433
\* neither changes the nick nor sends anything, and a 005 changes neither the
\* channel-prefix characters nor the membership-prefix map, whether or not the
\* task of the registration has resumed.
C27_TemporaryHandlersInertAfterMotd ==
    [][(EndOfMotdProcessed /\ lastRaw' # None)
       => /\ Command(lastRaw') = ERR_NICKNAMEINUSE => nick' = nick /\ sent' = <<>>
          /\ Command(lastRaw') = RPL_ISUPPORT
                => chanTypes' = chanTypes /\ prefixMap' = prefixMap]_vars

\* k underscores
RECURSIVE Underscores(_)
Underscores(k) == IF k = 0 THEN <<>> ELSE <<"_">> \o Underscores(k - 1)

\* C28: while _connect awaits the end of the MOTD, every 433 appends one "_"
\* to the nick and sends one NICK with the new nick, and no other line
\* changes the nick: the nick is the configured one followed by one "_" per
\* 433 answered, and as long as no 376 was processed the client is not
\* connected and _connect has not gone on.
C28_EachNickInUseAppendsUnderscore ==
    /\ [](/\ \E k \in 0..nLines : nick = Nick0 \o Underscores(k)
          /\ ~seenMotd => (~connected /\ connPc # "done"))
    /\ [][(connPc = "await end_motd" /\ lastRaw' # None)
          => IF Command(lastRaw') = ERR_NICKNAMEINUSE
             THEN /\ nick' = nick \o <<"_">>
                  /\ sent' = <<Buildmsg(<<NICK, nick'>>, None, None)>>
                  /\ ~connected' /\ connPc' = connPc
             ELSE nick' = nick]_vars

\* the server answered 433 three times and sent no 376: the nick has three
\* underscores, the third NICK was sent, and the client is not connected
C28_Witness ==
    /\ nick = Nick0 \o <<"_", "_", "_">>
    /\ lastRaw # None /\ Command(lastRaw) = ERR_NICKNAMEINUSE
    /\ sent = <<Buildmsg(<<NICK, nick>>, None, None)>>
    /\ ~seenMotd /\ ~connected /\ connPc = "await end_motd"

------------------------------------------------------------------------------
(* The removal of handlers.                                                 *)

\* the entries of list whose handler is not h, in their order
Without(list, h) == SelectSeq(list, LAMBDA e : e.h # h)

\* C29: remove_command_handler(h), remove_message_handler(h) and
\* remove_join_handler(h) leave in their registry exactly the entries whose
\* handler is not h, in their order, however often h was registered.
C29_RemoveTakesEveryEntry ==
    [][call'.op = "remove"
       => /\ call'.arg.kind = "command" => handlers' = Without(handlers, call'.arg.h)
          /\ call'.arg.kind = "message" => msgHandlers' = Without(msgHandlers, call'.arg.h)
          /\ call'.arg.kind = "join" => joinHandlers' = Without(joinHandlers, call'.arg.h)]_vars

------------------------------------------------------------------------------
(* Command handlers that wait.                                              *)

\* only a line the loop has not read yet can resolve future f: it is pending
\* and no task that will resolve it (the handler of await_message, started
\* for a message already dispatched) waits on the ready queue
OnlyLaterLine(f) ==
    /\ futs[f] = "pending"
    /\ \A i \in 1..Len(ready) : ready[i].h # AwaitMessageFn(f)

\* the function h of the program waits when it is called now: it awaits a
\* future of await_command or await_message that only a later line can
\* resolve, or a blocking join
Waits(h) == (h.fn = "awaits" /\ OnlyLaterLine(h.id)) \/ h.fn = "joins"

\* C30: a command handler that awaits a future which only a later line can
\* resolve (a future of await_command or await_message, or a blocking join)
\* leaves the task of run waiting inside it; from then on no line is read, no
\* handler is called and the future gets no result: unless the program
\* cancels the future, the loop stays where it is.
C30_AwaitingCommandHandlerStallsLoop ==
    [][/\ \A i \in 1..Len(invoked') :
              Waits(invoked'[i].h)
              => /\ i = Len(invoked')
                 /\ runState' = "blocked"
                 /\ futs'[runAwaits'.fut] = "pending"
       /\ (runState = "blocked" /\ OnlyLaterLine(runAwaits.fut))
             => /\ lastRaw' = None /\ nLines' = nLines /\ invoked' = <<>>
                /\ futs'[runAwaits.fut] \in {"pending", "cancelled"}
                /\ futs'[runAwaits.fut] = "pending"
                      => runState' = "blocked" /\ runAwaits' = runAwaits]_vars

\* the handler for NOTICE awaits the future of await_command(PRIVMSG): the
\* loop waits in it after one line, the future is pending and its handler is
\* still in the registry, and the program went on to register a join handler
C30_Witness ==
    /\ runState = "blocked" /\ nLines = 1
    /\ runAwaits.fut = 1 /\ futs[1] = "pending"
    /\ \E i \in 1..Len(handlers) : handlers[i].h = AwaitFn(1)
    /\ joinHandlers # <<>>

------------------------------------------------------------------------------
(* Errors of the roster handlers and of the matchers.                       *)

\* C31: a JOIN, PART, QUIT or NICK line never ends the loop of run, whatever
\* the roster is; a PART of a user who is not in the member set of the
\* channel leaves the member sets as they are.
C31_RosterLinesNeverEndLoop ==
    [][(lastRaw' # None /\ Command(lastRaw') \in {JOIN, PART, QUIT, NICK})
       => /\ exc' = NoExc
          /\ runState' = "running"
          /\ (/\ Command(lastRaw') = PART
              /\ Line(lastRaw').args[2] \in DOMAIN chans
              /\ SenderNick(Line(lastRaw').prefix)
                    \notin MemberNames(Cur, Line(lastRaw').args[2]))
                => chans' = chans]_vars

\* C32: a PRIVMSG or NOTICE is processed while the client is connected, from
\* a user or from the server itself, with handlers that filter on the sender
\* by a string or a pattern: every handler is started or skipped, nothing is
\* raised and the loop is still running.
C32_MatchersNeverRaise ==
    [][(lastRaw' \in OriginLines /\ connected)
       => /\ exc' = NoExc
          /\ runState' = "running"
          /\ Len(spawned') <= Len(msgHandlers)
          /\ \A i \in 1..Len(spawned') : spawned'[i].kind = "message"]_vars

\* the handler of the task that was started i-th
HandlerOf(i) ==
    CHOOSE mh \in {msgHandlers[j] : j \in 1..Len(msgHandlers)} : mh.h = spawned[i].h

\* C33: every handler that was registered through on_message of channel #x
\* and was started, was started for a message to #x or, when it was
\* registered with accept_query=True, for a message to a user; never for a
\* message to another channel.
C33_ChannelHandlerFiresForItsChannel ==
    \A i \in 1..Len(spawned) :
        spawned[i].kind = "message"
        => \/ spawned[i].arg.message.recipient = [kind |-> "Channel", name |-> ChanX]
           \/ /\ HandlerOf(i).matcher # None
              /\ spawned[i].arg.message.recipient.kind = "User"

====
